---------------------------- MODULE Spec2Model ----------------------------
(***************************************************************************)
(* Model of the request router of next-on-pages (class RoutesMatcher):     *)
(* the phase state machine (run / checkPhase / checkRoute), the effects of *)
(* a matched rule, and the middleware response protocol.                   *)
(*                                                                         *)
(* A path is a sequence of tokens.  A local path "/a/b" is <<"a","b">>,    *)
(* "/" is <<"">>, "/a/" is <<"a","">>; a token that starts with "?" is a   *)
(* query string; an absolute URL starts with its origin token.  The empty  *)
(* sequence is the empty string.                                           *)
(***************************************************************************)
EXTENDS Integers, Sequences, FiniteSets, TLC

VARIABLES
    routes,             \* this.routes: phase -> ordered list of rules (read-only)
    startPhase,         \* the argument of run
    path,               \* this.path
    status,             \* this.status (NoStatus: undefined)
    headers,            \* this.headers: normal, important, middlewareLocation
    searchParams,       \* this.searchParams
    body,               \* this.body: "undefined", "null" or "stream"
    checkPhaseCounter,  \* this.checkPhaseCounter
    middlewareInvoked,  \* this.middlewareInvoked
    reqHeaders,         \* this.reqCtx.request.headers
    cookies,            \* this.cookies (read-only)
    pc,                 \* position of the run
    stack,              \* checkPhase invocations suspended in their rule loop
    callPhase,          \* argument of the checkPhase call being entered
    result,             \* value returned by the checkPhase call that just ended
    hist,               \* observations of the run made so far
    twin,               \* the other matcher instances of a comparison of runs
    platform            \* globalThis and process of a call of the context API

vars == <<routes, startPhase, path, status, headers, searchParams, body,
          checkPhaseCounter, middlewareInvoked, reqHeaders, cookies, pc, stack,
          callPhase, result, hist, twin, platform>>

---------------------------------------------------------------------------
(* Bounds of the model *)

\* Rules in a route table, over all phases.
MaxRules == 2
\* The model follows checkPhaseCounter up to this value.
CounterCap == 60

(* Program constants *)

\* status: number | undefined; 0 stands for undefined (both are falsy).
NoStatus == 0
\* checkPhaseCounter++ >= 50
MaxPhaseChecks == 50

Phases == {"none", "filesystem", "rewrite", "resource", "miss", "hit", "error"}

---------------------------------------------------------------------------
(* Paths *)

ExtOrigin == "https://ext.example"
QueryTokens == {"?x=1"}

\* utils isUrl: the string starts with http:// or https://
isUrl(p) == Len(p) > 0 /\ p[1] = ExtOrigin

Last(p) == p[Len(p)]

HasQuery(p) == Len(p) > 0 /\ Last(p) \in QueryTokens

\* URL.pathname of a URL built from the string p
Pathname(p) == IF HasQuery(p) THEN SubSeq(p, 1, Len(p) - 1) ELSE p

\* URL.searchParams of a URL built from the string p
QueryOf(p) == IF HasQuery(p) THEN {<<"x", "1">>} ELSE {}

\* p.replace(/\/$/, '')
StripTrailingSlash(p) ==
    IF Len(p) > 0 /\ Last(p) = "" THEN SubSeq(p, 1, Len(p) - 1) ELSE p

\* p.endsWith('/')
EndsWithSlash(p) == Len(p) > 0 /\ Last(p) = ""

\* Segments ending in ".rsc", with the segment left by replace(/\.rsc/i, '')
RscStripped ==
    [s \in {"index.rsc", "a.rsc", "__index.prefetch.rsc"} |->
        CASE s = "index.rsc" -> "index"
          [] s = "a.rsc" -> "a"
          [] s = "__index.prefetch.rsc" -> "__index.prefetch"]

\* /\.rsc$/i.test(p)
IsRsc(p) == Len(p) > 0 /\ Last(p) \in DOMAIN RscStripped
\* /\.prefetch\.rsc$/i.test(p)
IsPrefetchRsc(p) == Len(p) > 0 /\ Last(p) = "__index.prefetch.rsc"
\* /\/index\.rsc$/i.test(p)
IsRscIndex(p) == Len(p) > 0 /\ Last(p) = "index.rsc"
\* /^\/(?:index)?$/i.test(p)
IsAbsoluteIndex(p) == p = <<"">> \/ p = <<"index">>
\* /^\/__index\.prefetch\.rsc$/i.test(p)
IsPrefetchRscIndex(p) == p = <<"__index.prefetch.rsc">>

\* p.replace(/\.rsc/i, ''): the first ".rsc" of the string is removed
RECURSIVE StripFirstRsc(_)
StripFirstRsc(p) ==
    IF p = <<>> THEN <<>>
    ELSE IF Head(p) \in DOMAIN RscStripped
         THEN <<RscStripped[Head(p)]>> \o Tail(p)
         ELSE <<Head(p)>> \o StripFirstRsc(Tail(p))

\* /\/(\(\.+\))+/.test(p): a segment that starts with "(.)", "(..)", ...
InterceptSegments == {"(.)photo"}
IsIntercept(p) == \E i \in 1..Len(p) : p[i] \in InterceptSegments

---------------------------------------------------------------------------
(* Header collections: functions from the keys present to their values *)

NoHeaders == [k \in {} |-> ""]

HasHeader(h, k) == k \in DOMAIN h

\* Headers.get: "" stands for null
GetHeader(h, k) == IF k \in DOMAIN h THEN h[k] ELSE ""

SetHeader(h, k, v) == (k :> v) @@ h

DeleteHeader(h, k) == [x \in (DOMAIN h) \ {k} |-> h[x]]

\* utils applyHeaders(target, source): every entry of source is set on target
applyHeaders(target, source) == source @@ target

\* utils applySearchParams(target, source): the entries of source are added
applySearchParams(target, source) == target \cup source


---------------------------------------------------------------------------
(* The build output: artifact map, locales, wildcard, and the request *)

\* this.output: output path -> type of the artifact
output ==
    (<<"b">> :> "static") @@ (<<"api">> :> "function")
      @@ (<<"index.rsc">> :> "static")
      @@ (<<"mw">> :> "middleware") @@ (<<"fn">> :> "function")

\* this.locales, in the order of buildMetadata.collectedLocales
locales == <<"en", "fr">>

\* this.wildcardMatch.value for the request's host ("" when none matches)
wildcardMatch == "w"

\* request.method
reqMethod == "GET"

\* utils parseAcceptLanguage: the locales of a header or cookie value
parseAcceptLanguage(v) ==
    CASE v = "fr" -> <<"fr">>
      [] v = "de" -> <<"de">>
      [] v = "de,fr" -> <<"de", "fr">>
      [] v = "en,de" -> <<"en", "de">>
      [] OTHER -> <<>>

\* Requests: the path of the URL, the headers, the cookies
Request(p, h, c) == [path |-> p, headers |-> h, cookies |-> c]

Requests ==
    { Request(<<"a">>, NoHeaders, NoHeaders),
      Request(<<"b">>, NoHeaders, NoHeaders),
      Request(<<"b", "">>, NoHeaders, NoHeaders),
      Request(<<"">>, ("accept-language" :> "de,fr"), ("NEXT_LOCALE" :> "fr")),
      Request(<<"x", "en", "b">>, ("a" :> "v0"), NoHeaders) }

\* The phases run is called with for a request: `none`, and for one of the
\* requests `error` as well (the caller's re-entry after a failure)
StartPhases(req) == IF req.path = <<"a">> THEN {"none", "error"} ELSE {"none"}

---------------------------------------------------------------------------
(* Route rules (VercelSource) *)

NoLocale == [redirect |-> NoHeaders, cookie |-> ""]

BaseRule ==
    [src |-> "/", methods |-> {}, has |-> "", missing |-> "", dest |-> <<>>,
     status |-> NoStatus, headers |-> NoHeaders, continue |-> FALSE,
     override |-> FALSE, important |-> FALSE, middlewarePath |-> <<>>,
     check |-> FALSE, locale |-> NoLocale]

\* utils matchPCRE(src, path): whether src matches, and its first capture
matchPCRE(src, p) ==
    CASE src = "/" -> [match |-> Len(p) > 0, cap |-> <<>>]
      [] src = "^/" -> [match |-> Len(p) > 0 /\ ~isUrl(p), cap |-> <<>>]
      [] src = "^/a$" -> [match |-> p = <<"a">>, cap |-> <<>>]
      [] src = "^/b$" -> [match |-> p = <<"b">>, cap |-> <<>>]
      [] src = "^/c$" -> [match |-> p = <<"c">>, cap |-> <<>>]
      [] src = "^//?(?:en|fr)/(.*)$" ->
            [match |-> Len(p) >= 2 /\ p[1] \in {"en", "fr"},
             cap |-> IF Len(p) >= 2 THEN Tail(p) ELSE <<>>]
      [] src = "^//?(?:en|fr)(?:/(.*))?$" ->
            [match |-> Len(p) >= 1 /\ p[1] \in {"en", "fr"},
             cap |-> IF Len(p) >= 2 THEN Tail(p) ELSE <<"">>]
      [] OTHER -> [match |-> FALSE, cap |-> <<>>]

\* utils isLocaleTrailingSlashRegex(src, locales)
isLocaleTrailingSlashRegex(src) == src = "^//?(?:en|fr)/(.*)$"

\* src.replace(/\/\(\.\*\)\$$/, '(?:/(.*))?$')
LocaleFriendlySrc(src) ==
    IF src = "^//?(?:en|fr)/(.*)$" THEN "^//?(?:en|fr)(?:/(.*))?$" ELSE src

\* /^\^(.)*$/.test(src)
SrcIsRegex(src) == src # "/"

\* The path a src that is no regex spells
SrcAsPath(src) == IF src = "/" THEN <<"">> ELSE <<>>

\* utils applyPCREMatches(dest, match): "$1" becomes the first capture
RECURSIVE applyPCREMatches(_, _)
applyPCREMatches(dest, cap) ==
    IF dest = <<>> THEN <<>>
    ELSE IF Head(dest) = "$1" THEN cap \o applyPCREMatches(Tail(dest), cap)
    ELSE <<Head(dest)>> \o applyPCREMatches(Tail(dest), cap)

\* dest.replace(/\$wildcard/g, value)
ReplaceWildcard(dest) ==
    [i \in 1..Len(dest) |-> IF dest[i] = "$wildcard" THEN wildcardMatch ELSE dest[i]]

\* utils getNextPhase
getNextPhase(phase) ==
    CASE phase = "none" -> "filesystem"
      [] phase = "filesystem" -> "rewrite"
      [] phase = "rewrite" -> "resource"
      [] phase = "resource" -> "miss"
      [] OTHER -> "miss"


---------------------------------------------------------------------------
(* Middleware responses *)

Resp(st, bd, h) == [status |-> st, body |-> bd, headers |-> h]

\* The keys a value of x-middleware-override-headers lists (split, trim)
OverrideKeys(v) ==
    CASE v = "a" -> {"a"}
      [] v = "a,b" -> {"a", "b"}
      [] OTHER -> {}

\* `x-middleware-request-${key}`
ValueKey(key) ==
    IF key = "a" THEN "x-middleware-request-a" ELSE "x-middleware-request-b"

\* new URL(rewriteHeader, this.url)
RewriteUrl(v) ==
    CASE v = "/b?x=1" ->
            [hostname |-> "host", href |-> <<"https://host", "b", "?x=1">>,
             pathname |-> <<"b">>, searchParams |-> {<<"x", "1">>}]
      [] v = "/c" ->
            [hostname |-> "host", href |-> <<"https://host", "c">>,
             pathname |-> <<"c">>, searchParams |-> {}]
      [] OTHER ->
            [hostname |-> "ext.example", href |-> <<ExtOrigin, "x">>,
             pathname |-> <<"x">>, searchParams |-> {}]

\* this.url.hostname
reqHostname == "host"

\* What an invoked middleware may answer
MwResponses ==
    { Resp(200, "null", ("x-middleware-next" :> "1")),
      Resp(200, "null", ("x-middleware-next" :> "1") @@ ("x-test" :> "m")),
      Resp(200, "null", ("x-middleware-next" :> "1")
                          @@ ("x-middleware-override-headers" :> "a")
                          @@ ("x-middleware-request-a" :> "v1")),
      Resp(200, "stream", NoHeaders),
      Resp(200, "null", NoHeaders),
      Resp(403, "stream", ("x-test" :> "m")),
      Resp(308, "null", ("location" :> "/b")),
      Resp(308, "null", ("location" :> "/b") @@ ("x-middleware-next" :> "1")),
      Resp(200, "null", ("x-middleware-rewrite" :> "/c")),
      Resp(200, "null", ("x-middleware-rewrite" :> "/b?x=1")
                          @@ ("x-middleware-next" :> "1")),
      Resp(200, "null", ("x-middleware-rewrite" :> "https://ext.example/x")),
      Resp(500, "null", NoHeaders),
      Resp(500, "stream", ("x-test" :> "e")),
      Resp(500, "null", ("x-middleware-rewrite" :> "/b?x=1")
                          @@ ("x-test" :> "e")) }

\* Stands for "no middleware was invoked"
NoResp == Resp(NoStatus, "null", NoHeaders)

---------------------------------------------------------------------------
(* The matcher's fields as one record, and the methods that change them *)

MatcherState ==
    [path |-> path, status |-> status, headers |-> headers,
     searchParams |-> searchParams, body |-> body,
     middlewareInvoked |-> middlewareInvoked, reqHeaders |-> reqHeaders]

\* m.toUpperCase()
ToUpperCase(m) == IF m = "get" THEN "GET" ELSE m

\* checkRouteMatch without the test of the missing conditions
checkRouteMatchNoMissing(s, route, checkStatus, checkIntercept) ==
    /\ matchPCRE(route.src, s.path).match
    /\ \/ route.methods = {}
       \/ ToUpperCase(reqMethod) \in {ToUpperCase(m) : m \in route.methods}
    /\ route.has # "" => HasHeader(s.reqHeaders, route.has)
    /\ checkStatus => route.status = s.status
    /\ ~(/\ checkIntercept
         /\ route.dest # <<>>
         /\ IsIntercept(route.dest)
         /\ ~IsIntercept(s.path))

checkRouteMatch(s, route, checkStatus, checkIntercept) ==
    /\ matchPCRE(route.src, s.path).match
    /\ \/ route.methods = {}
       \/ ToUpperCase(reqMethod) \in {ToUpperCase(m) : m \in route.methods}
    /\ route.has # "" => HasHeader(s.reqHeaders, route.has)
    /\ route.missing # "" => ~HasHeader(s.reqHeaders, route.missing)
    /\ checkStatus => route.status = s.status
    /\ ~(/\ checkIntercept
         /\ route.dest # <<>>
         /\ IsIntercept(route.dest)
         /\ ~IsIntercept(s.path))

\* The override-headers part of processMiddlewareResp: the request headers after it
OverriddenRequestHeaders(req, respHeaders, keys) ==
    LET kept == {k \in DOMAIN req :
                    ~(k \in keys /\ ~HasHeader(respHeaders, ValueKey(k)))}
        set == {k \in keys : HasHeader(respHeaders, ValueKey(k))}
    IN  [k \in kept \cup set |->
            IF k \in set THEN respHeaders[ValueKey(k)] ELSE req[k]]

processMiddlewareResp(s, resp) ==
    LET overrideHeader == GetHeader(resp.headers, "x-middleware-override-headers")
        keys == OverrideKeys(overrideHeader)
        req1 == IF overrideHeader # ""
                THEN OverriddenRequestHeaders(s.reqHeaders, resp.headers, keys)
                ELSE s.reqHeaders
        h1 == IF overrideHeader # ""
              THEN [k \in (DOMAIN resp.headers)
                            \ ({ValueKey(x) : x \in keys}
                                  \cup {"x-middleware-override-headers"})
                        |-> resp.headers[k]]
              ELSE resp.headers
        rewriteHeader == GetHeader(h1, "x-middleware-rewrite")
        newUrl == RewriteUrl(rewriteHeader)
        rewriteIsExternal == reqHostname # newUrl.hostname
        path1 == IF rewriteHeader = "" THEN s.path
                 ELSE IF rewriteIsExternal THEN newUrl.href ELSE newUrl.pathname
        params1 == IF rewriteHeader = "" THEN s.searchParams
                   ELSE applySearchParams(s.searchParams, newUrl.searchParams)
        h2 == DeleteHeader(h1, "x-middleware-rewrite")
        middlewareNextHeader == GetHeader(h2, "x-middleware-next")
        h3 == DeleteHeader(h2, "x-middleware-next")
        shortCircuit == /\ middlewareNextHeader = ""
                        /\ rewriteHeader = ""
                        /\ ~HasHeader(h3, "location")
        redirect == /\ middlewareNextHeader = ""
                    /\ ~shortCircuit
                    /\ HasHeader(h3, "location")
                    /\ resp.status >= 300
                    /\ resp.status < 400
    IN  [s EXCEPT
            !.path = path1,
            !.searchParams = params1,
            !.body = IF shortCircuit THEN resp.body ELSE @,
            !.status = IF shortCircuit \/ redirect THEN resp.status ELSE @,
            !.reqHeaders = applyHeaders(req1, h3),
            !.headers = [@ EXCEPT
                            !.normal = applyHeaders(@, h3),
                            !.middlewareLocation = GetHeader(h3, "location")]]

\* runRouteMiddleware without the test of the artifact's type
runRouteMiddlewareAnyType(s, mwPath, resp) ==
    IF mwPath = <<>> THEN [ok |-> TRUE, s |-> s]
    ELSE IF mwPath \notin DOMAIN output
    THEN [ok |-> FALSE, s |-> [s EXCEPT !.status = 500]]
    ELSE LET s1 == [s EXCEPT !.middlewareInvoked = Append(@, mwPath)]
         IN  IF resp.status = 500
             THEN [ok |-> FALSE, s |-> [s1 EXCEPT !.status = resp.status]]
             ELSE [ok |-> TRUE, s |-> processMiddlewareResp(s1, resp)]

\* runRouteMiddleware: [ok, s]; resp is the answer of the middleware if invoked
\* runRouteMiddleware that interprets a response of status 500 before it fails
runRouteMiddlewareInterprets500(s, mwPath, resp) ==
    IF mwPath = <<>> THEN [ok |-> TRUE, s |-> s]
    ELSE IF mwPath \notin DOMAIN output \/ output[mwPath] # "middleware"
    THEN [ok |-> FALSE, s |-> [s EXCEPT !.status = 500]]
    ELSE LET s1 == [s EXCEPT !.middlewareInvoked = Append(@, mwPath)]
         IN  IF resp.status = 500
             THEN [ok |-> FALSE,
                   s |-> [processMiddlewareResp(s1, resp) EXCEPT
                             !.status = resp.status]]
             ELSE [ok |-> TRUE, s |-> processMiddlewareResp(s1, resp)]

runRouteMiddleware(s, mwPath, resp) ==
    IF mwPath = <<>> THEN [ok |-> TRUE, s |-> s]
    ELSE IF mwPath \notin DOMAIN output \/ output[mwPath] # "middleware"
    THEN [ok |-> FALSE, s |-> [s EXCEPT !.status = 500]]
    ELSE LET s1 == [s EXCEPT !.middlewareInvoked = Append(@, mwPath)]
         IN  IF resp.status = 500
             THEN [ok |-> FALSE, s |-> [s1 EXCEPT !.status = resp.status]]
             ELSE [ok |-> TRUE, s |-> processMiddlewareResp(s1, resp)]

\* applyRouteOverrides that leaves the important collection
applyRouteOverridesKeepImportant(s, route) ==
    IF ~route.override THEN s
    ELSE [s EXCEPT !.status = NoStatus,
                   !.headers = [@ EXCEPT !.normal = NoHeaders]]

\* applyRouteOverrides that resets the body as well
applyRouteOverridesClearsBody(s, route) ==
    IF ~route.override THEN s
    ELSE [s EXCEPT !.status = NoStatus,
                   !.body = "undefined",
                   !.headers = [@ EXCEPT !.normal = NoHeaders,
                                         !.important = NoHeaders]]

applyRouteOverrides(s, route) ==
    IF ~route.override THEN s
    ELSE [s EXCEPT !.status = NoStatus,
                   !.headers = [@ EXCEPT !.normal = NoHeaders,
                                         !.important = NoHeaders]]

\* applyRouteHeaders without the test of route.important
applyRouteHeadersAllImportant(s, route) ==
    IF route.headers = NoHeaders THEN s
    ELSE [s EXCEPT !.headers =
            [@ EXCEPT !.normal = applyHeaders(@, route.headers),
                      !.important = applyHeaders(@, route.headers)]]

applyRouteHeaders(s, route) ==
    IF route.headers = NoHeaders THEN s
    ELSE [s EXCEPT !.headers =
            [@ EXCEPT !.normal = applyHeaders(@, route.headers),
                      !.important = IF route.important
                                    THEN applyHeaders(@, route.headers)
                                    ELSE @]]

applyRouteStatus(s, route) ==
    IF route.status = NoStatus THEN s ELSE [s EXCEPT !.status = route.status]


\* applyRouteDest without the correction for /index.rsc
applyRouteDestNoRevert(s, route, cap) ==
    IF route.dest = <<>> THEN [s |-> s, prevPath |-> s.path]
    ELSE
    LET prevPath == s.path
        processedDest == IF wildcardMatch # "" THEN ReplaceWildcard(route.dest)
                         ELSE route.dest
        p1 == applyPCREMatches(processedDest, cap)
        p3 == IF IsRsc(p1) /\ ~IsPrefetchRsc(p1) /\ p1 \notin DOMAIN output
              THEN StripFirstRsc(p1) ELSE p1
        p4 == IF ~isUrl(p3) THEN Pathname(p3) ELSE p3
    IN  [s |-> [s EXCEPT !.path = p4,
                         !.searchParams = applySearchParams(@, QueryOf(p3))],
         prevPath |-> prevPath]

\* applyRouteDest returning a previous path that no path equals
applyRouteDestNoPrevPath(s, route, cap) ==
    IF route.dest = <<>> THEN [s |-> s, prevPath |-> <<>>]
    ELSE
    LET prevPath == s.path
        processedDest == IF wildcardMatch # "" THEN ReplaceWildcard(route.dest)
                         ELSE route.dest
        p1 == applyPCREMatches(processedDest, cap)
        p2 == IF /\ IsRscIndex(p1)
                 /\ ~IsAbsoluteIndex(prevPath)
                 /\ ~IsPrefetchRscIndex(prevPath)
              THEN prevPath ELSE p1
        p3 == IF IsRsc(p2) /\ ~IsPrefetchRsc(p2) /\ p2 \notin DOMAIN output
              THEN StripFirstRsc(p2) ELSE p2
        p4 == IF ~isUrl(p3) THEN Pathname(p3) ELSE p3
    IN  [s |-> [s EXCEPT !.path = p4,
                         !.searchParams = applySearchParams(@, QueryOf(p3))],
         prevPath |-> <<>>]

\* applyRouteDest returning the new path as the previous one
applyRouteDestPrevIsNew(s, route, cap) ==
    IF route.dest = <<>> THEN [s |-> s, prevPath |-> s.path]
    ELSE
    LET prevPath == s.path
        processedDest == IF wildcardMatch # "" THEN ReplaceWildcard(route.dest)
                         ELSE route.dest
        p1 == applyPCREMatches(processedDest, cap)
        p2 == IF /\ IsRscIndex(p1)
                 /\ ~IsAbsoluteIndex(prevPath)
                 /\ ~IsPrefetchRscIndex(prevPath)
              THEN prevPath ELSE p1
        p3 == IF IsRsc(p2) /\ ~IsPrefetchRsc(p2) /\ p2 \notin DOMAIN output
              THEN StripFirstRsc(p2) ELSE p2
        p4 == IF ~isUrl(p3) THEN Pathname(p3) ELSE p3
    IN  [s |-> [s EXCEPT !.path = p4,
                         !.searchParams = applySearchParams(@, QueryOf(p3))],
         prevPath |-> p4]

\* applyRouteDest: the matcher after it, and the path before the substitution
applyRouteDest(s, route, cap) ==
    IF route.dest = <<>> THEN [s |-> s, prevPath |-> s.path]
    ELSE
    LET prevPath == s.path
        processedDest == IF wildcardMatch # "" THEN ReplaceWildcard(route.dest)
                         ELSE route.dest
        p1 == applyPCREMatches(processedDest, cap)
        p2 == IF /\ IsRscIndex(p1)
                 /\ ~IsAbsoluteIndex(prevPath)
                 /\ ~IsPrefetchRscIndex(prevPath)
              THEN prevPath ELSE p1
        p3 == IF IsRsc(p2) /\ ~IsPrefetchRsc(p2) /\ p2 \notin DOMAIN output
              THEN StripFirstRsc(p2) ELSE p2
        p4 == IF ~isUrl(p3) THEN Pathname(p3) ELSE p3
    IN  [s |-> [s EXCEPT !.path = p4,
                         !.searchParams = applySearchParams(@, QueryOf(p3))],
         prevPath |-> prevPath]

\* path.startsWith(v) for a redirect target v
StartsWith(p, v) ==
    /\ Len(p) > 0
    /\ p[1] \in (CASE v = "/fr" -> {"fr", "french"}
                   [] v = "/de" -> {"de"}
                   [] OTHER -> {})

\* The locales of a list that have a redirect target, in the list's order
RedirectLocales(locs, redirects) ==
    SelectSeq(locs, LAMBDA l : l \in DOMAIN redirects)

\* applyLocaleRedirects with the header's locales ahead of the cookie's
applyLocaleRedirectsHeaderFirst(s, route, ck) ==
    IF route.locale.redirect = NoHeaders THEN s
    ELSE IF ~SrcIsRegex(route.src) /\ SrcAsPath(route.src) # s.path THEN s
    ELSE IF HasHeader(s.headers.normal, "location") THEN s
    ELSE
    LET cookieValue == IF route.locale.cookie # ""
                       THEN GetHeader(ck, route.locale.cookie) ELSE ""
        cookieLocales == parseAcceptLanguage(cookieValue)
        headerLocales ==
            parseAcceptLanguage(GetHeader(s.reqHeaders, "accept-language"))
        redirectLocales ==
            RedirectLocales(headerLocales \o cookieLocales, route.locale.redirect)
        redirectValue == route.locale.redirect[redirectLocales[1]]
    IN  IF redirectLocales = <<>> THEN s
        ELSE IF StartsWith(s.path, redirectValue) THEN s
        ELSE [s EXCEPT !.status = 307,
                       !.headers = [@ EXCEPT !.normal =
                                       SetHeader(@, "location", redirectValue)]]

applyLocaleRedirects(s, route, ck) ==
    IF route.locale.redirect = NoHeaders THEN s
    ELSE IF ~SrcIsRegex(route.src) /\ SrcAsPath(route.src) # s.path THEN s
    ELSE IF HasHeader(s.headers.normal, "location") THEN s
    ELSE
    LET cookieValue == IF route.locale.cookie # ""
                       THEN GetHeader(ck, route.locale.cookie) ELSE ""
        cookieLocales == parseAcceptLanguage(cookieValue)
        headerLocales ==
            parseAcceptLanguage(GetHeader(s.reqHeaders, "accept-language"))
        redirectLocales ==
            RedirectLocales(cookieLocales \o headerLocales, route.locale.redirect)
        redirectValue == route.locale.redirect[redirectLocales[1]]
    IN  IF redirectLocales = <<>> THEN s
        ELSE IF StartsWith(s.path, redirectValue) THEN s
        ELSE [s EXCEPT !.status = 307,
                       !.headers = [@ EXCEPT !.normal =
                                       SetHeader(@, "location", redirectValue)]]

getLocaleFriendlyRoute(route, phase) ==
    IF phase # "miss" THEN route
    ELSE IF isLocaleTrailingSlashRegex(route.src)
    THEN [route EXCEPT !.src = LocaleFriendlySrc(@)]
    ELSE route

\* includes that finds nothing
IncludesNever(q, x) == FALSE

\* x in the sequence q
Includes(q, x) == \E i \in 1..Len(q) : q[i] = x

\* Whether checkRoute gets as far as its effects (it does not return 'skip')
RouteApplies(phase, rawRoute, s) ==
    LET route == getLocaleFriendlyRoute(rawRoute, phase)
    IN  /\ checkRouteMatch(s, route, phase = "error", phase = "rewrite")
        /\ ~(/\ route.middlewarePath # <<>>
             /\ Includes(s.middlewareInvoked, route.middlewarePath))

\* Whether checkRoute awaits the middleware of the rule
RouteInvokes(phase, rawRoute, s) ==
    /\ RouteApplies(phase, rawRoute, s)
    /\ rawRoute.middlewarePath \in DOMAIN output
    /\ output[rawRoute.middlewarePath] = "middleware"

\* The end of checkRoute without the test of route.continue
RouteEndNoContinueTest(route) ==
    IF route.status # NoStatus /\ route.status >= 300 /\ route.status <= 399
    THEN "done"
    ELSE "next"

\* The end of checkRoute for a rule that has been applied
RouteEnd(route) ==
    IF ~route.continue THEN "done"
    ELSE IF route.status # NoStatus /\ route.status >= 300 /\ route.status <= 399
    THEN "done"
    ELSE "next"

\* checkRoute: the matcher after it and its result; "call" with a phase is
\* the nested checkPhase whose result checkRoute returns
checkRoute(phase, rawRoute, s, ck, resp) ==
    LET route == getLocaleFriendlyRoute(rawRoute, phase)
        cap == matchPCRE(route.src, s.path).cap
        Out(x, r) == [s |-> x, result |-> r, call |-> "none"]
        Call(x, ph) == [s |-> x, result |-> "call", call |-> ph]
    IN
    IF ~checkRouteMatch(s, route, phase = "error", phase = "rewrite")
    THEN Out(s, "skip")
    ELSE IF /\ route.middlewarePath # <<>>
            /\ Includes(s.middlewareInvoked, route.middlewarePath)
    THEN Out(s, "skip")
    ELSE
    LET s1 == applyRouteOverrides(s, route)
        s2 == applyLocaleRedirects(s1, route, ck)
        mw == runRouteMiddleware(s2, route.middlewarePath, resp)
    IN
    IF ~mw.ok THEN Out(mw.s, "error")
    ELSE IF mw.s.body # "undefined" \/ mw.s.headers.middlewareLocation # ""
    THEN Out(mw.s, "done")
    ELSE
    LET s3 == applyRouteHeaders(mw.s, route)
        s4 == applyRouteStatus(s3, route)
        d == applyRouteDest(s4, route, cap)
        s5 == d.s
    IN
    IF route.check /\ ~isUrl(s5.path)
    THEN IF d.prevPath = s5.path
         THEN IF phase # "miss"
              THEN Call(s5, getNextPhase(phase))
              ELSE Out([s5 EXCEPT !.status = 404], RouteEnd(route))
         ELSE IF phase = "miss"
         THEN IF /\ s5.path \notin DOMAIN output
                 /\ StripTrailingSlash(s5.path) \notin DOMAIN output
              THEN Call(s5, "filesystem")
              ELSE Out([s5 EXCEPT !.status = IF @ = 404 THEN NoStatus ELSE @],
                       RouteEnd(route))
         ELSE Call(s5, "none")
    ELSE Out(s5, RouteEnd(route))


\* path.match(new RegExp(`/${locale}(/.*)`))?.[1]; <<>> when there is no match
PathWithoutLocale(p, locale) ==
    LET at == {i \in 1..(Len(p) - 1) : p[i] = locale}
        first == CHOOSE i \in at : \A j \in at : i <= j
    IN  IF at = {} THEN <<>> ELSE SubSeq(p, first + 1, Len(p))

\* The locale loop of checkPhase('none'): the path after it
RECURSIVE LocaleFixup(_, _)
LocaleFixup(p, ls) ==
    IF ls = <<>> THEN p
    ELSE LET pathWithoutLocale == PathWithoutLocale(p, Head(ls))
         IN  IF pathWithoutLocale # <<>> /\ pathWithoutLocale \in DOMAIN output
             THEN pathWithoutLocale
             ELSE LocaleFixup(p, Tail(ls))

\* checkPhase after its rule loop, going to the successor phase also after a
\* rule returned 'done'
checkPhaseEndAlwaysAdvance(phase, shouldContinue, s) ==
    IF \/ phase = "hit"
       \/ isUrl(s.path)
       \/ HasHeader(s.headers.normal, "location")
       \/ s.body = "stream"
    THEN [done |-> TRUE, s |-> s, nextPhase |-> "none"]
    ELSE
    LET p1 == IF phase = "none" THEN LocaleFixup(s.path, locales) ELSE s.path
        newPath == StripTrailingSlash(p1)
        stripped == /\ p1 \notin DOMAIN output
                    /\ EndsWithSlash(p1)
                    /\ newPath \in DOMAIN output
        pathExistsInOutput == p1 \in DOMAIN output \/ stripped
        p2 == IF stripped THEN newPath ELSE p1
        should404 == s.status = NoStatus \/ s.status < 400
        status1 == IF phase = "miss" /\ ~pathExistsInOutput /\ should404
                   THEN 404 ELSE s.status
        nextPhase == IF pathExistsInOutput \/ phase = "miss" \/ phase = "error"
                     THEN "hit"
                     ELSE getNextPhase(phase)
    IN  [done |-> FALSE,
         s |-> [s EXCEPT !.path = p2, !.status = status1],
         nextPhase |-> nextPhase]

\* checkPhase after its rule loop, without the 404 of the `miss` phase
checkPhaseEndNo404(phase, shouldContinue, s) ==
    IF \/ phase = "hit"
       \/ isUrl(s.path)
       \/ HasHeader(s.headers.normal, "location")
       \/ s.body = "stream"
    THEN [done |-> TRUE, s |-> s, nextPhase |-> "none"]
    ELSE
    LET p1 == IF phase = "none" THEN LocaleFixup(s.path, locales) ELSE s.path
        newPath == StripTrailingSlash(p1)
        stripped == /\ p1 \notin DOMAIN output
                    /\ EndsWithSlash(p1)
                    /\ newPath \in DOMAIN output
        pathExistsInOutput == p1 \in DOMAIN output \/ stripped
        p2 == IF stripped THEN newPath ELSE p1
        nextPhase == IF pathExistsInOutput \/ phase = "miss" \/ phase = "error"
                     THEN "hit"
                     ELSE IF shouldContinue THEN getNextPhase(phase)
                     ELSE "miss"
    IN  [done |-> FALSE,
         s |-> [s EXCEPT !.path = p2],
         nextPhase |-> nextPhase]

\* checkPhase after its rule loop: whether it returns 'done' there, and
\* otherwise the matcher and the phase of the checkPhase call it ends with
checkPhaseEnd(phase, shouldContinue, s) ==
    IF \/ phase = "hit"
       \/ isUrl(s.path)
       \/ HasHeader(s.headers.normal, "location")
       \/ s.body = "stream"
    THEN [done |-> TRUE, s |-> s, nextPhase |-> "none"]
    ELSE
    LET p1 == IF phase = "none" THEN LocaleFixup(s.path, locales) ELSE s.path
        newPath == StripTrailingSlash(p1)
        stripped == /\ p1 \notin DOMAIN output
                    /\ EndsWithSlash(p1)
                    /\ newPath \in DOMAIN output
        pathExistsInOutput == p1 \in DOMAIN output \/ stripped
        p2 == IF stripped THEN newPath ELSE p1
        should404 == s.status = NoStatus \/ s.status < 400
        status1 == IF phase = "miss" /\ ~pathExistsInOutput /\ should404
                   THEN 404 ELSE s.status
        nextPhase == IF pathExistsInOutput \/ phase = "miss" \/ phase = "error"
                     THEN "hit"
                     ELSE IF shouldContinue THEN getNextPhase(phase)
                     ELSE "miss"
    IN  [done |-> FALSE,
         s |-> [s EXCEPT !.path = p2, !.status = status1],
         nextPhase |-> nextPhase]

---------------------------------------------------------------------------
(* The route tables of the model *)

RuleSet ==
    { [BaseRule EXCEPT !.src = "^/a$", !.dest = <<"c">>, !.check = TRUE],
      [BaseRule EXCEPT !.src = "^/c$", !.dest = <<"a">>, !.check = TRUE],
      [BaseRule EXCEPT !.src = "^/", !.check = TRUE, !.continue = TRUE],
      [BaseRule EXCEPT !.src = "^/", !.dest = <<"c", "?x=1">>, !.check = TRUE],
      [BaseRule EXCEPT !.src = "^/a$", !.dest = <<"b">>],
      [BaseRule EXCEPT !.middlewarePath = <<"mw">>, !.continue = TRUE,
                       !.override = TRUE],
      [BaseRule EXCEPT !.middlewarePath = <<"mw">>, !.dest = <<"c">>,
                       !.headers = ("x-test" :> "b")],
      [BaseRule EXCEPT !.src = "^/", !.middlewarePath = <<"gone">>],
      [BaseRule EXCEPT !.middlewarePath = <<"fn">>, !.continue = TRUE],
      [BaseRule EXCEPT !.headers = ("x-test" :> "a"), !.important = TRUE,
                       !.continue = TRUE],
      [BaseRule EXCEPT !.headers = ("x-test" :> "b"), !.continue = TRUE],
      [BaseRule EXCEPT !.headers = ("x-test" :> "b"), !.override = TRUE,
                       !.continue = TRUE],
      [BaseRule EXCEPT !.headers = ("location" :> "/b"), !.continue = TRUE],
      [BaseRule EXCEPT !.status = 308, !.headers = ("location" :> "/b"),
                       !.continue = TRUE],
      [BaseRule EXCEPT !.src = "^/a$", !.dest = <<ExtOrigin, "x">>,
                       !.check = TRUE],
      [BaseRule EXCEPT !.src = "^/", !.dest = <<"index.rsc">>, !.check = TRUE],
      [BaseRule EXCEPT !.locale = [redirect |-> ("fr" :> "/fr") @@ ("de" :> "/de"),
                                   cookie |-> "NEXT_LOCALE"],
                       !.continue = TRUE],
      [BaseRule EXCEPT !.src = "^//?(?:en|fr)/(.*)$", !.dest = <<"$1">>,
                       !.check = TRUE],
      [BaseRule EXCEPT !.has = "a", !.status = 404, !.continue = TRUE],
      [BaseRule EXCEPT !.src = "^/", !.dest = <<"(.)photo">>,
                       !.methods = {"get"}] }

\* A rule in a phase.  Rules marked check are placed in the phases for which
\* checkRoute's jumps are specified (getNextPhase has no successor for `hit`
\* and `error`).
Placements ==
    {pl \in Phases \X RuleSet : pl[2].check => pl[1] \notin {"hit", "error"}}

\* The rules a sequence of placements puts in a phase, in their order
RECURSIVE RulesOf(_, _)
RulesOf(ps, phase) ==
    IF ps = <<>> THEN <<>>
    ELSE (IF Head(ps)[1] = phase THEN <<Head(ps)[2]>> ELSE <<>>)
            \o RulesOf(Tail(ps), phase)

Tables ==
    { [phase \in Phases |-> RulesOf(ps, phase)] :
        ps \in UNION {[1..n -> Placements] : n \in 0..MaxRules} }

---------------------------------------------------------------------------
(* The run *)

\* A checkPhase invocation in its rule loop.  matched and afterMatch count the
\* rules it has found matching and the rules it evaluated after the first match.
Frame(phase) ==
    [phase |-> phase, index |-> 1, shouldContinue |-> TRUE,
     matched |-> 0, afterMatch |-> 0]

Top == stack[Len(stack)]

Pop == SubSeq(stack, 1, Len(stack) - 1)

\* What has been observed of the run:
\*   entries, bodies   checkPhase calls, and those that passed the loop guard
\*   evals             checkRoute calls
\*   invocations       middleware invocations
\*   tripAt            evals when the loop guard tripped (-1: it has not)
\*   failAt, failInv, failDepth
\*                     evals, invocations and call depth when a rule named a
\*                     missing or mistyped middleware (-1: none has)
\*   shortAt, shortStatus
\*                     evals when a middleware short-circuited, and its status
\*   extAt, extPath    evals when a middleware rewrote to another host, the URL
\*   mwResp, mwStatus  the last middleware response that was processed, and
\*                     the pending status right after processMiddlewareResp
\*   selfCheck         a check-marked rule left the path as it was
\*   impVal            the value the last important rule gave x-test ("": none)
\*   impPlain, impOverride
\*                     since then, a rule not marked important set x-test;
\*                     a rule marked override was applied
\*   anyApplied        a rule matched and was not skipped
\*   hitEntries        checkPhase('hit') calls that passed the loop guard
\*   hitReturned       a checkPhase('hit') call has returned
\*   mw500At           evals when a middleware answered with status 500
\*                     (-1: none has)
InitHist ==
    [entries |-> 0, bodies |-> 0, evals |-> 0, invocations |-> 0,
     tripAt |-> -1, failAt |-> -1, failInv |-> 0, failDepth |-> 0,
     shortAt |-> -1, shortStatus |-> NoStatus,
     extAt |-> -1, extPath |-> <<>>,
     mwResp |-> NoResp, mwStatus |-> NoStatus,
     selfCheck |-> FALSE,
     impVal |-> "", impPlain |-> FALSE, impOverride |-> FALSE,
     anyApplied |-> FALSE, hitEntries |-> 0, hitReturned |-> FALSE,
     mw500At |-> -1]

\* hist after checkRoute(phase, route) on the matcher s, answered resp, gave o
ObserveRoute(h, phase, rawRoute, s, ck, resp, o) ==
    LET route == getLocaleFriendlyRoute(rawRoute, phase)
        applies == RouteApplies(phase, rawRoute, s)
        isMiddleware == /\ route.middlewarePath \in DOMAIN output
                        /\ output[route.middlewarePath] = "middleware"
        fails == applies /\ route.middlewarePath # <<>> /\ ~isMiddleware
        invokes == applies /\ route.middlewarePath # <<>> /\ isMiddleware
        processed == invokes /\ resp.status # 500
        s2 == applyLocaleRedirects(applyRouteOverrides(s, route), route, ck)
        afterMw == IF processed THEN processMiddlewareResp(s2, resp) ELSE s2
        short == /\ processed
                 /\ ~HasHeader(resp.headers, "x-middleware-next")
                 /\ ~HasHeader(resp.headers, "x-middleware-rewrite")
                 /\ ~HasHeader(resp.headers, "location")
        ext == /\ processed
               /\ HasHeader(resp.headers, "x-middleware-rewrite")
               /\ RewriteUrl(resp.headers["x-middleware-rewrite"]).hostname
                     # reqHostname
        effects == /\ applies
                   /\ ~fails
                   /\ ~(invokes /\ resp.status = 500)
                   /\ afterMw.body = "undefined"
                   /\ afterMw.headers.middlewareLocation = ""
        setsTest == effects /\ HasHeader(route.headers, "x-test")
        evals == h.evals + 1
    IN  [h EXCEPT
            !.evals = evals,
            !.invocations = IF invokes THEN @ + 1 ELSE @,
            !.failAt = IF fails THEN evals ELSE @,
            !.failInv = IF fails THEN h.invocations ELSE @,
            !.failDepth = IF fails THEN Len(stack) ELSE @,
            !.shortAt = IF short THEN evals ELSE @,
            !.shortStatus = IF short THEN resp.status ELSE @,
            !.extAt = IF ext THEN evals ELSE @,
            !.extPath = IF ext
                        THEN RewriteUrl(resp.headers["x-middleware-rewrite"]).href
                        ELSE @,
            !.mwResp = IF processed THEN resp ELSE @,
            !.mwStatus = IF processed THEN afterMw.status ELSE @,
            !.selfCheck = \/ @
                          \/ /\ effects
                             /\ route.check
                             /\ ~isUrl(o.s.path)
                             /\ o.s.path = afterMw.path,
            !.impVal = IF setsTest /\ route.important
                       THEN route.headers["x-test"] ELSE @,
            !.impPlain = IF setsTest /\ route.important THEN FALSE
                         ELSE IF setsTest /\ h.impVal # "" THEN TRUE
                         ELSE @,
            !.impOverride = IF setsTest /\ route.important THEN FALSE
                            ELSE IF applies /\ route.override /\ h.impVal # ""
                            THEN TRUE
                            ELSE @,
            !.anyApplied = @ \/ applies,
            !.mw500At = IF invokes /\ resp.status = 500 THEN evals ELSE @]

\* platform where the context API is not called: no context stored, no
\* process.release, no NEXT_PHASE, no NODE_ENV, nothing returned or thrown
NoPlatform ==
    [stored |-> "undefined", release |-> "", nextPhase |-> "", nodeEnv |-> "",
     returned |-> "", threw |-> ""]

\* The outcome of a run: the value run returned and the tuple it leaves
Outcome(r, p, st, h, sp, b) ==
    [result |-> r, path |-> p, status |-> st, headers |-> h,
     searchParams |-> sp, body |-> b]

NoOutcome ==
    Outcome("none", <<>>, NoStatus,
            [normal |-> NoHeaders, important |-> NoHeaders,
             middlewareLocation |-> ""], {}, "undefined")

\* A constructor that takes the request's headers as the last run left them
FreshSameRequestObject(req) ==
    [path |-> req.path, status |-> NoStatus,
     headers |-> [normal |-> NoHeaders, important |-> NoHeaders,
                  middlewareLocation |-> ""],
     searchParams |-> {}, body |-> "undefined", checkPhaseCounter |-> 0,
     middlewareInvoked |-> <<>>, reqHeaders |-> reqHeaders,
     cookies |-> req.cookies, pc |-> "start", stack |-> <<>>,
     callPhase |-> "none", result |-> "none", hist |-> InitHist]

\* A matcher instance as the constructor leaves it for the request req, and
\* the position of its run
Fresh(req) ==
    [path |-> req.path, status |-> NoStatus,
     headers |-> [normal |-> NoHeaders, important |-> NoHeaders,
                  middlewareLocation |-> ""],
     searchParams |-> {}, body |-> "undefined", checkPhaseCounter |-> 0,
     middlewareInvoked |-> <<>>, reqHeaders |-> req.headers,
     cookies |-> req.cookies, pc |-> "start", stack |-> <<>>,
     callPhase |-> "none", result |-> "none", hist |-> InitHist]

\* twin when one matcher runs on its own, its middleware free in its answers
NoTwin ==
    [mode |-> "none", cur |-> 1,
     reqs |-> <<Request(<<>>, NoHeaders, NoHeaders),
                Request(<<>>, NoHeaders, NoHeaders)>>,
     answers |-> <<NoResp, NoResp>>,
     other |-> Fresh(Request(<<>>, NoHeaders, NoHeaders)),
     solo |-> <<NoOutcome, NoOutcome>>, switched |-> FALSE]

\* The answers the middleware may give to the running instance: any, or in a
\* comparison of runs the one answer fixed for the instance's request
Answers ==
    IF twin.mode = "none" THEN MwResponses ELSE {twin.answers[twin.cur]}

\* getLocaleFriendlyRoute that writes the friendly route to the table
StoredRouteInPlace(rawRoute, phase) ==
    IF phase # "miss" THEN rawRoute
    ELSE IF isLocaleTrailingSlashRegex(rawRoute.src)
    THEN [rawRoute EXCEPT !.src = LocaleFriendlySrc(@)]
    ELSE rawRoute

\* The entry of the route table after getLocaleFriendlyRoute was called on it:
\* the friendly route is a copy, the entry is left as it was
StoredRoute(rawRoute, phase) == rawRoute

Init ==
    /\ routes \in Tables
    /\ \E req \in Requests :
          /\ startPhase \in StartPhases(req)
          /\ path = req.path
          /\ reqHeaders = req.headers
          /\ cookies = req.cookies
    /\ status = NoStatus
    /\ headers = [normal |-> NoHeaders, important |-> NoHeaders,
                  middlewareLocation |-> ""]
    /\ searchParams = {}
    /\ body = "undefined"
    /\ checkPhaseCounter = 0
    /\ middlewareInvoked = <<>>
    /\ pc = "start"
    /\ stack = <<>>
    /\ callPhase = "none"
    /\ result = "none"
    /\ hist = InitHist
    /\ twin = NoTwin
    /\ platform = NoPlatform

\* The matcher's fields take the values of the record s
Becomes(s) ==
    /\ path' = s.path
    /\ status' = s.status
    /\ headers' = s.headers
    /\ searchParams' = s.searchParams
    /\ body' = s.body
    /\ middlewareInvoked' = s.middlewareInvoked
    /\ reqHeaders' = s.reqHeaders

\* run, up to its call of checkPhase
Run ==
    /\ pc = "start"
    /\ checkPhaseCounter' = 0
    /\ callPhase' = startPhase
    /\ pc' = "enter"
    /\ UNCHANGED <<platform, twin, routes, startPhase, path, status, headers, searchParams,
                   body, middlewareInvoked, reqHeaders, cookies, stack,
                   result, hist>>

\* The loop guard one call late
LoopGuardOffByOne(counter) == counter > MaxPhaseChecks

\* No loop guard
LoopGuardNever(counter) == FALSE

\* checkPhase whose tripped loop guard sets no status
CheckPhaseEnterNoStatus ==
    /\ pc = "enter"
    /\ checkPhaseCounter < CounterCap
    /\ checkPhaseCounter' = checkPhaseCounter + 1
    /\ IF checkPhaseCounter >= MaxPhaseChecks
       THEN /\ result' = "error"
            /\ pc' = "return"
            /\ hist' = [hist EXCEPT !.entries = @ + 1, !.tripAt = hist.evals]
            /\ UNCHANGED <<status, middlewareInvoked, stack>>
       ELSE /\ middlewareInvoked' = <<>>
            /\ stack' = Append(stack, Frame(callPhase))
            /\ pc' = "loop"
            /\ hist' = [hist EXCEPT
                          !.entries = @ + 1, !.bodies = @ + 1,
                          !.hitEntries = IF callPhase = "hit" THEN @ + 1 ELSE @]
            /\ UNCHANGED <<status, result>>
    /\ UNCHANGED <<platform, twin, routes, startPhase, path, headers, searchParams, body,
                   reqHeaders, cookies, callPhase>>

\* The loop guard of checkPhase, on the counter before its increment
LoopGuard(counter) == counter >= MaxPhaseChecks

\* checkPhase, up to its rule loop
CheckPhaseEnter ==
    /\ pc = "enter"
    /\ checkPhaseCounter < CounterCap
    /\ checkPhaseCounter' = checkPhaseCounter + 1
    /\ IF LoopGuard(checkPhaseCounter)
       THEN /\ status' = 500
            /\ result' = "error"
            /\ pc' = "return"
            /\ hist' = [hist EXCEPT !.entries = @ + 1, !.tripAt = hist.evals]
            /\ UNCHANGED <<middlewareInvoked, stack>>
       ELSE /\ middlewareInvoked' = <<>>
            /\ stack' = Append(stack, Frame(callPhase))
            /\ pc' = "loop"
            /\ hist' = [hist EXCEPT
                          !.entries = @ + 1, !.bodies = @ + 1,
                          !.hitEntries = IF callPhase = "hit" THEN @ + 1 ELSE @]
            /\ UNCHANGED <<status, result>>
    /\ UNCHANGED <<platform, twin, routes, startPhase, path, headers, searchParams, body,
                   reqHeaders, cookies, callPhase>>

\* The frame after checkRoute has been called on its next rule
Evaluated(frame, route) ==
    LET matches == checkRouteMatch(MatcherState,
                                   getLocaleFriendlyRoute(route, frame.phase),
                                   frame.phase = "error", frame.phase = "rewrite")
    IN  [frame EXCEPT
            !.index = @ + 1,
            !.matched = IF matches THEN @ + 1 ELSE @,
            !.afterMatch = IF frame.matched > 0 THEN @ + 1 ELSE @]

\* One pass of the rule loop of checkPhase: checkRoute on the next rule
CheckRouteStep ==
    /\ pc = "loop"
    /\ Top.index <= Len(routes[Top.phase])
    /\ \E route \in {routes[Top.phase][Top.index]} :
         \E resp \in (IF RouteInvokes(Top.phase, route, MatcherState)
                       THEN Answers ELSE {NoResp}) :
           \E o \in {checkRoute(Top.phase, route, MatcherState, cookies, resp)} :
                 /\ Becomes(o.s)
                 /\ hist' = ObserveRoute(hist, Top.phase, route, MatcherState,
                                          cookies, resp, o)
                 /\ CASE o.result \in {"skip", "next"} ->
                            /\ stack' = [stack EXCEPT
                                            ![Len(stack)] = Evaluated(@, route)]
                            /\ UNCHANGED <<pc, callPhase, result>>
                      [] o.result = "done" ->
                            /\ stack' = [stack EXCEPT
                                            ![Len(stack)] =
                                                [Evaluated(@, route) EXCEPT
                                                    !.shouldContinue = FALSE]]
                            /\ pc' = "post"
                            /\ UNCHANGED <<callPhase, result>>
                      [] o.result = "error" ->
                            /\ stack' = Pop
                            /\ result' = "error"
                            /\ pc' = "return"
                            /\ UNCHANGED callPhase
                      [] o.result = "call" ->
                            /\ stack' = [stack EXCEPT
                                            ![Len(stack)] = Evaluated(@, route)]
                            /\ callPhase' = o.call
                            /\ pc' = "enter"
                            /\ UNCHANGED result
    /\ routes' = [routes EXCEPT
                      ![Top.phase][Top.index] = StoredRoute(@, Top.phase)]
    /\ UNCHANGED <<platform, twin, startPhase, checkPhaseCounter, cookies>>

\* checkPhase after its rule loop
CheckPhaseEnd ==
    /\ \/ pc = "post"
       \/ pc = "loop" /\ Top.index > Len(routes[Top.phase])
    /\ \E o \in {checkPhaseEnd(Top.phase, Top.shouldContinue, MatcherState)} :
           /\ Becomes(o.s)
           /\ stack' = Pop
           /\ IF o.done
              THEN /\ result' = "done"
                   /\ pc' = "return"
                   /\ UNCHANGED callPhase
              ELSE /\ callPhase' = o.nextPhase
                   /\ pc' = "enter"
                   /\ UNCHANGED result
    /\ hist' = [hist EXCEPT !.hitReturned = @ \/ Top.phase = "hit"]
    /\ UNCHANGED <<platform, twin, routes, startPhase, checkPhaseCounter,
                   cookies>>

\* A nested checkPhase returns into the checkRoute that called it, which
\* returns its result to the rule loop
CheckRouteReturn ==
    /\ pc = "return"
    /\ stack # <<>>
    /\ IF result = "error"
       THEN /\ stack' = Pop
            /\ pc' = "return"
       ELSE /\ stack' = [stack EXCEPT ![Len(stack)].shouldContinue = FALSE]
            /\ pc' = "post"
    /\ UNCHANGED <<platform, twin, routes, startPhase, path, status, headers, searchParams,
                   body, checkPhaseCounter, middlewareInvoked, reqHeaders,
                   cookies, callPhase, result, hist>>

\* run whose final step replaces only an absent status
RunReturnOnlyUnset ==
    /\ pc = "return"
    /\ stack = <<>>
    /\ status' = IF HasHeader(headers.normal, "location") /\ status = NoStatus
                 THEN 307 ELSE status
    /\ pc' = "finished"
    /\ UNCHANGED <<platform, twin, routes, startPhase, path, headers, searchParams, body,
                   checkPhaseCounter, middlewareInvoked, reqHeaders, cookies,
                   stack, callPhase, result, hist>>

\* run, after checkPhase has returned
RunReturn ==
    /\ pc = "return"
    /\ stack = <<>>
    /\ status' = IF /\ HasHeader(headers.normal, "location")
                    /\ (status = NoStatus \/ status < 300 \/ status >= 400)
                 THEN 307 ELSE status
    /\ pc' = "finished"
    /\ UNCHANGED <<platform, twin, routes, startPhase, path, headers, searchParams, body,
                   checkPhaseCounter, middlewareInvoked, reqHeaders, cookies,
                   stack, callPhase, result, hist>>

Next ==
    \/ Run
    \/ CheckPhaseEnter
    \/ CheckRouteStep
    \/ CheckPhaseEnd
    \/ CheckRouteReturn
    \/ RunReturn

Spec == Init /\ [][Next]_vars

\* The runs of run('none') on the request for /a over the route tables made
\* of check-marked rules in any phase and middleware rules in `none`.
InitRewrites ==
    /\ Init
    /\ startPhase = "none"
    /\ path = <<"a">>
    /\ \A phase \in Phases : \A i \in 1..Len(routes[phase]) :
          \/ routes[phase][i].check
          \/ routes[phase][i].middlewarePath # <<>> /\ phase = "none"

\* Every step of a run is taken by the one chain of calls of its request,
\* and an invoked middleware returns: a run that can take a step takes it.
FairSpec == InitRewrites /\ [][Next]_vars /\ WF_vars(Next)


---------------------------------------------------------------------------
(* Properties *)

Finished == pc = "finished"

\* No rule of the route table has continue set
NoContinue ==
    \A phase \in Phases : \A i \in 1..Len(routes[phase]) :
        ~routes[phase][i].continue

\* C1: in a run, checkPhaseCounter counts the checkPhase calls from 0, the
\* rule loop of checkPhase is entered at most 50 times, and the 51st call
\* evaluates no rule, sets status 500 and returns 'error': no call follows it.
C1_LoopGuardCap ==
    /\ pc = "start" => checkPhaseCounter = 0 /\ hist.entries = 0
    /\ pc # "start" => checkPhaseCounter = hist.entries
    /\ hist.bodies <= MaxPhaseChecks
    /\ hist.entries <= MaxPhaseChecks + 1
    /\ hist.entries <= MaxPhaseChecks => hist.bodies = hist.entries /\ hist.tripAt = -1
    /\ hist.entries = MaxPhaseChecks + 1 =>
          /\ hist.bodies = MaxPhaseChecks
          /\ hist.tripAt = hist.evals
          /\ result = "error"
          /\ pc \in {"return", "finished"}
          /\ pc = "return" => status = 500

C1_Witness ==
    /\ Finished
    /\ hist.entries = MaxPhaseChecks + 1
    /\ hist.bodies = MaxPhaseChecks
    /\ result = "error"

\* C2: every run returns: it reaches the end of run, with 'done' or 'error'.
C2_RunReturns == <>(Finished /\ result \in {"done", "error"})

\* A run through a cycle of check-marked rewrites that has returned
C2_Witness == Finished /\ hist.entries > 7 /\ Len(routes["none"]) > 0

\* C3 as stated: a run in which a check-marked rule rewrote the path to
\* itself ends within 50 phase transitions and with status 500.
C3_SelfRewriteEnds500 ==
    (Finished /\ hist.selfCheck) =>
        hist.entries <= MaxPhaseChecks + 1 /\ status = 500

\* C3 as amended: such a run makes at most 50 phase transitions (51
\* checkPhase calls), and if its 51st call trips the loop guard, checkPhase
\* returns 'error' to run with status 500; the self-rewrite by itself sets
\* no status 500.
C3_SelfRewriteEnds ==
    hist.selfCheck =>
        /\ hist.entries <= MaxPhaseChecks + 1
        /\ (pc = "return" /\ stack = <<>> /\ hist.tripAt # -1) =>
              result = "error" /\ status = 500

C3_Witness ==
    /\ hist.selfCheck
    /\ pc = "return"
    /\ stack = <<>>
    /\ hist.tripAt # -1
    /\ status = 500

\* C4: when run has returned 'error', the status is 500.
C4_ErrorStatus500 == (Finished /\ result = "error") => status = 500

\* C5: once a rule that applies names a middleware path that is absent from
\* the artifact map or is no middleware, nothing is invoked and no rule is
\* evaluated any more, status is 500 when checkPhase returns, and every
\* suspended call and run return 'error'.
C5_MissingMiddleware ==
    hist.failAt # -1 =>
        /\ hist.evals = hist.failAt
        /\ hist.invocations = hist.failInv
        /\ result = "error"
        /\ pc \in {"return", "finished"}
        /\ pc = "return" => status = 500

\* The failure happened in a nested checkPhase, and run has returned
C5_Witness == hist.failAt # -1 /\ hist.failDepth >= 2 /\ Finished

\* C6: once a middleware has answered without x-middleware-rewrite, location
\* and x-middleware-next, no rule is evaluated any more and the run ends with
\* the status of that response.
C6_ShortCircuit ==
    hist.shortAt # -1 =>
        /\ hist.evals = hist.shortAt
        /\ Finished => status = hist.shortStatus

\* C7: once a middleware has rewritten to another host, no rule is matched
\* any more and the run ends with the path being that URL.
C7_ExternalRewriteTerminal ==
    hist.extAt # -1 =>
        /\ hist.evals = hist.extAt
        /\ Finished => path = hist.extPath

\* C8: a processed middleware response with a location header and a status
\* in 300..399 leaves that status pending.
C8_RedirectStatusAdopted ==
    (/\ HasHeader(hist.mwResp.headers, "location")
     /\ hist.mwResp.status >= 300
     /\ hist.mwResp.status < 400) => hist.mwStatus = hist.mwResp.status

\* C9 as stated: when an important rule has set x-test and a rule applied
\* later that is not important has set it too, the important collection
\* holds the important rule's value at the end of the run.
C9_ImportantWins ==
    (Finished /\ hist.impVal # "" /\ hist.impPlain) =>
        GetHeader(headers.important, "x-test") = hist.impVal

\* C9 as amended: the same, provided no rule applied after the important rule
\* is marked override (which empties both collections) or is itself an
\* important rule setting the header.
C9_ImportantWinsNoOverride ==
    (Finished /\ hist.impVal # "" /\ hist.impPlain /\ ~hist.impOverride) =>
        GetHeader(headers.important, "x-test") = hist.impVal

C9_Witness ==
    /\ Finished
    /\ hist.impVal = "a"
    /\ hist.impPlain
    /\ ~hist.impOverride
    /\ GetHeader(headers.important, "x-test") = "a"
    /\ GetHeader(headers.normal, "x-test") = "b"

\* C10: in a route table without continue, no checkPhase invocation
\* evaluates a rule after the first of its rules that matched.
C10_OneMatchPerPhase ==
    NoContinue =>
        \A i \in 1..Len(stack) :
            stack[i].matched <= 1 /\ stack[i].afterMatch = 0

\* A phase with two rules has stopped after its first rule, which matched
C10_Witness ==
    /\ NoContinue
    /\ pc = "post"
    /\ Top.matched = 1
    /\ Top.index = 2
    /\ Len(routes[Top.phase]) = 2

\* The phases of a run that finds nothing, in the order of their checkPhase calls
PhaseOrder == <<"none", "filesystem", "rewrite", "resource", "miss", "hit">>

\* No rule of the phases of PhaseOrder matches the request
NoRuleMatches ==
    \A k \in 1..Len(PhaseOrder) : \A i \in 1..Len(routes[PhaseOrder[k]]) :
        ~checkRouteMatch(MatcherState,
                         getLocaleFriendlyRoute(routes[PhaseOrder[k]][i],
                                                PhaseOrder[k]),
                         FALSE, PhaseOrder[k] = "rewrite")

\* Neither the path nor its form without trailing slash or without locale
\* is in the artifact map
PathAbsent ==
    /\ path \notin DOMAIN output
    /\ StripTrailingSlash(path) \notin DOMAIN output
    /\ LocaleFixup(path, locales) = path

\* run('none') has applied no rule so far and no rule matches
NothingFound ==
    startPhase = "none" /\ ~hist.anyApplied /\ NoRuleMatches /\ PathAbsent

\* C11: a run of run('none') in which no rule matches and the path is in no
\* form in the artifact map calls checkPhase for none, filesystem, rewrite,
\* resource, miss, hit, once each and in that order, never changes the path,
\* and returns 'done' with status 404.
C11_NothingFound404 ==
    /\ [](NothingFound =>
            /\ hist.entries <= Len(PhaseOrder)
            /\ hist.bodies = hist.entries
            /\ pc = "enter" => callPhase = PhaseOrder[hist.entries + 1]
            /\ pc \in {"loop", "post"} =>
                  Len(stack) = 1 /\ Top.phase = PhaseOrder[hist.entries]
            /\ pc \in {"return", "finished"} =>
                  /\ hist.entries = Len(PhaseOrder)
                  /\ result = "done"
                  /\ status = 404)
    /\ [][NothingFound => path' = path /\ NothingFound']_vars

\* Such a run has returned, after skipping at least one rule
C11_Witness ==
    /\ NothingFound
    /\ Finished
    /\ hist.evals > 0
    /\ hist.entries = 6
    /\ status = 404
    /\ result = "done"

\* A status of the redirect range
IsRedirectStatus(st) == st >= 300 /\ st <= 399

\* C12: when run has returned and the normal collection has a location
\* header, the status is in 300..399; the final step of run keeps a status
\* of that range and replaces any other status by 307.
C12_LocationMeansRedirect ==
    /\ []((Finished /\ HasHeader(headers.normal, "location")) =>
            IsRedirectStatus(status))
    /\ [][(pc = "return" /\ stack = <<>>) =>
            /\ headers' = headers
            /\ result' = result
            /\ ~HasHeader(headers.normal, "location") => status' = status
            /\ (HasHeader(headers.normal, "location")
                  /\ IsRedirectStatus(status)) => status' = status
            /\ (HasHeader(headers.normal, "location")
                  /\ ~IsRedirectStatus(status)) => status' = 307]_vars

\* run has returned 'error' with a location header: its status 500 became 307
C12_Witness ==
    /\ Finished
    /\ result = "error"
    /\ HasHeader(headers.normal, "location")
    /\ status = 307

---------------------------------------------------------------------------
(* The methods of the matcher, each called once on its own *)

\* A route table with the one rule in `none`
OneRule(rule) == [phase \in Phases |-> IF phase = "none" THEN <<rule>> ELSE <<>>]

\* The rule a method is called with
TheRule == routes["none"][1]

\* The values a method call is observed with: the response given to
\* processMiddlewareResp, and what applyRouteDest returned
UnitHist(resp) == [resp |-> resp, returned |-> <<>>]

\* The matcher before a method call in a phase, with the fields the call does
\* not read as the constructor leaves them
UnitInit(method, phase, rule, p, st, normal, important, rh, ck, resp) ==
    /\ routes = OneRule(rule)
    /\ startPhase = "none"
    /\ path = p
    /\ status = st
    /\ headers = [normal |-> normal, important |-> important,
                  middlewareLocation |-> ""]
    /\ searchParams = {}
    /\ body = "undefined"
    /\ checkPhaseCounter = 1
    /\ middlewareInvoked = <<>>
    /\ reqHeaders = rh
    /\ cookies = ck
    /\ pc = method
    /\ stack = <<>>
    /\ callPhase = phase
    /\ result = "none"
    /\ hist = UnitHist(resp)
    /\ twin = NoTwin
    /\ platform = NoPlatform

\* Paths entering applyRouteDest
DestPaths ==
    { <<"a">>, <<"">>, <<"index">>, <<"__index.prefetch.rsc">>, <<"a.rsc">>,
      <<"index.rsc">>, <<"b">>, <<"x", "a.rsc">>, <<"en", "a">> }

\* Rules applyRouteDest is called with
DestRules ==
    { [BaseRule EXCEPT !.src = "^/", !.dest = <<"index.rsc">>, !.check = TRUE],
      [BaseRule EXCEPT !.src = "^/", !.dest = <<"x", "index.rsc">>],
      [BaseRule EXCEPT !.src = "^/", !.dest = <<"index.rsc", "?x=1">>],
      [BaseRule EXCEPT !.src = "^/", !.dest = <<"a.rsc">>],
      [BaseRule EXCEPT !.src = "^/", !.dest = <<"$wildcard", "index.rsc">>],
      [BaseRule EXCEPT !.src = "^/", !.dest = <<ExtOrigin, "index.rsc">>],
      [BaseRule EXCEPT !.src = "^//?(?:en|fr)/(.*)$", !.dest = <<"$1">>],
      [BaseRule EXCEPT !.src = "^/"] }

InitDest ==
    \E rule \in DestRules : \E p \in DestPaths : \E st \in {NoStatus, 404} :
        /\ matchPCRE(rule.src, p).match
        /\ UnitInit("applyRouteDest", "none", rule, p, st, NoHeaders, NoHeaders,
                    NoHeaders, NoHeaders, NoResp)

\* One call of applyRouteDest for a rule that matched
ApplyRouteDest ==
    /\ pc = "applyRouteDest"
    /\ \E d \in {applyRouteDest(MatcherState, TheRule,
                                 matchPCRE(TheRule.src, path).cap)} :
          /\ Becomes(d.s)
          /\ hist' = [hist EXCEPT !.returned = d.prevPath]
    /\ pc' = "returned"
    /\ UNCHANGED <<platform, twin, routes, startPhase, checkPhaseCounter, cookies, stack,
                   callPhase, result>>

\* Responses processMiddlewareResp is called with
UnitResponses ==
    { Resp(200, "null", ("x-middleware-next" :> "1")
                          @@ ("x-middleware-override-headers" :> "a")
                          @@ ("x-middleware-request-a" :> "v1")),
      Resp(200, "null", ("x-middleware-next" :> "1")
                          @@ ("x-middleware-override-headers" :> "a")),
      Resp(200, "null", ("x-middleware-next" :> "1")
                          @@ ("x-middleware-override-headers" :> "a,b")
                          @@ ("x-middleware-request-a" :> "v1")
                          @@ ("x-middleware-request-b" :> "v2")),
      Resp(200, "null", ("x-middleware-next" :> "1")
                          @@ ("x-middleware-override-headers" :> "a")
                          @@ ("x-middleware-request-a" :> "v1")
                          @@ ("a" :> "m")),
      Resp(200, "stream", ("x-middleware-override-headers" :> "a")
                            @@ ("x-middleware-request-a" :> "v1")),
      Resp(200, "null", ("x-middleware-rewrite" :> "/c")
                          @@ ("x-middleware-override-headers" :> "a")
                          @@ ("x-middleware-request-a" :> "v1")),
      Resp(308, "null", ("location" :> "/b")
                          @@ ("x-middleware-override-headers" :> "a")
                          @@ ("x-middleware-request-a" :> "v1")),
      Resp(200, "null", ("x-middleware-next" :> "1") @@ ("x-test" :> "m")) }

InitResp ==
    \E resp \in UnitResponses :
    \E rh \in {NoHeaders, ("a" :> "v0"), ("a" :> "v1") @@ ("b" :> "v0")} :
    \E normal \in {NoHeaders, ("x-test" :> "b")} :
        UnitInit("processMiddlewareResp", "none",
                 [BaseRule EXCEPT !.middlewarePath = <<"mw">>],
                 <<"a">>, NoStatus, normal, NoHeaders, rh, NoHeaders, resp)

\* One call of processMiddlewareResp
ProcessMiddlewareResp ==
    /\ pc = "processMiddlewareResp"
    /\ Becomes(processMiddlewareResp(MatcherState, hist.resp))
    /\ pc' = "returned"
    /\ UNCHANGED <<platform, twin, routes, startPhase, checkPhaseCounter, cookies, stack,
                   callPhase, result, hist>>

\* Rules applyLocaleRedirects is called with
LocaleRules ==
    { [BaseRule EXCEPT !.src = src,
                       !.locale = [redirect |-> redirect, cookie |-> cookie]] :
        src \in {"/", "^/"},
        redirect \in {("fr" :> "/fr") @@ ("de" :> "/de"), ("de" :> "/de")},
        cookie \in {"NEXT_LOCALE", ""} }
    \cup {[BaseRule EXCEPT !.src = "^/"]}

InitLocale ==
    \E rule \in LocaleRules :
    \E p \in {<<"">>, <<"a">>, <<"fr">>, <<"french">>, <<"de">>} :
    \E ck \in {NoHeaders, ("NEXT_LOCALE" :> "fr"), ("NEXT_LOCALE" :> "en,de")} :
    \E rh \in {NoHeaders} \cup
               {("accept-language" :> v) : v \in {"fr", "de", "de,fr", "en,de"}} :
    \E normal \in {NoHeaders, ("location" :> "/x")} :
        /\ matchPCRE(rule.src, p).match
        /\ UnitInit("applyLocaleRedirects", "none", rule, p, NoStatus, normal,
                    NoHeaders, rh, ck, NoResp)

\* One call of applyLocaleRedirects for a rule that matched
ApplyLocaleRedirects ==
    /\ pc = "applyLocaleRedirects"
    /\ Becomes(applyLocaleRedirects(MatcherState, TheRule, cookies))
    /\ pc' = "returned"
    /\ UNCHANGED <<platform, twin, routes, startPhase, checkPhaseCounter, cookies, stack,
                   callPhase, result, hist>>

\* Rules checkRoute is called with: no middleware, no locale redirect
CheckRules ==
    { [BaseRule EXCEPT !.src = src, !.methods = methods, !.has = cond[1],
                       !.missing = cond[2], !.status = st, !.dest = dest,
                       !.override = override, !.important = important,
                       !.headers = h, !.check = check] :
        src \in {"^/a$", "^/"},
        methods \in {{}, {"post"}},
        cond \in {<<"", "">>, <<"a", "">>, <<"", "a">>},
        st \in {NoStatus, 404},
        dest \in {<<>>, <<"b">>, <<"(.)photo">>},
        override \in BOOLEAN, important \in BOOLEAN,
        h \in {NoHeaders, ("x-test" :> "a")},
        check \in BOOLEAN }

InitCheck ==
    \E rule \in CheckRules :
    \E phase \in {"none", "rewrite", "miss", "error"} :
    \E p \in {<<"a">>, <<"c">>, <<"(.)photo">>} :
    \E st \in {NoStatus, 404} :
    \E normal \in {NoHeaders, ("x-old" :> "n")} :
    \E important \in {NoHeaders, ("x-old" :> "i")} :
    \E rh \in {NoHeaders, ("a" :> "v0")} :
        /\ rule.check => phase # "error"
        /\ UnitInit("checkRoute", phase, rule, p, st, normal, important, rh,
                    NoHeaders, NoResp)

\* Check-marked rules checkRoute is called with, with and without middleware
JumpRules ==
    { [BaseRule EXCEPT !.check = TRUE, !.middlewarePath = mw, !.dest = dest,
                       !.continue = continue, !.status = st] :
        mw \in {<<>>, <<"mw">>},
        dest \in {<<>>, <<"a">>, <<"b">>, <<"c">>, <<"b", "">>, <<ExtOrigin, "x">>},
        continue \in BOOLEAN,
        st \in {NoStatus, 404} }

\* Answers of the middleware of a check-marked rule
JumpResponses ==
    { Resp(200, "null", ("x-middleware-next" :> "1")),
      Resp(200, "null", ("x-middleware-rewrite" :> "/c")),
      Resp(200, "null", ("x-middleware-rewrite" :> "/b?x=1")
                          @@ ("x-middleware-next" :> "1")),
      Resp(200, "stream", NoHeaders),
      Resp(308, "null", ("location" :> "/b")),
      Resp(500, "null", NoHeaders) }

InitJump ==
    \E rule \in JumpRules :
    \E phase \in {"none", "filesystem", "rewrite", "resource", "miss"} :
    \E p \in {<<"a">>, <<"b">>, <<"c">>} :
    \E st \in {NoStatus, 404} :
    \E resp \in (IF rule.middlewarePath = <<>> THEN {NoResp} ELSE JumpResponses) :
        UnitInit("checkRoute", phase, rule, p, st, NoHeaders, NoHeaders,
                 NoHeaders, NoHeaders, resp)

\* One call of checkRoute, up to its return or its call of checkPhase;
\* callPhase becomes the phase of that call
CheckRoute ==
    /\ pc = "checkRoute"
    /\ \E o \in {checkRoute(callPhase, TheRule, MatcherState, cookies, hist.resp)} :
          /\ Becomes(o.s)
          /\ result' = o.result
          /\ callPhase' = IF o.result = "call" THEN o.call ELSE callPhase
    /\ pc' = "returned"
    /\ UNCHANGED <<platform, twin, routes, startPhase, checkPhaseCounter,
                   cookies, stack, hist>>

UnitInits == InitDest \/ InitResp \/ InitLocale \/ InitCheck \/ InitJump

UnitNext ==
    \/ ApplyRouteDest
    \/ ProcessMiddlewareResp
    \/ ApplyLocaleRedirects
    \/ CheckRoute

UnitSpec == UnitInits /\ [][UnitNext]_vars

\* The destination of the rule after the substitution of wildcard and captures
SubstitutedDest ==
    applyPCREMatches(ReplaceWildcard(TheRule.dest),
                     matchPCRE(TheRule.src, path).cap)

\* applyRouteDest is called with a destination that ends in /index.rsc on a
\* path that is neither the root nor the prefetch-RSC index
RscIndexCase ==
    /\ pc = "applyRouteDest"
    /\ TheRule.dest # <<>>
    /\ IsRscIndex(SubstitutedDest)
    /\ ~IsAbsoluteIndex(path)
    /\ ~IsPrefetchRscIndex(path)

\* C13 as stated: in that case applyRouteDest leaves the path as it entered
\* the rule, and returns it.
C13_RscIndexReverts ==
    [][RscIndexCase => path' = path /\ hist'.returned = path]_vars

\* C13 as amended: in that case the path is reverted to the entering path and
\* then takes the RSC extension strip: an entering path that ends in .rsc, not
\* in .prefetch.rsc, and is not in the artifact map loses its .rsc; any other
\* entering path is left as it was.  The entering path is returned.
C13_RscIndexRevertsThenStrips ==
    [][RscIndexCase =>
        /\ hist'.returned = path
        /\ searchParams' = searchParams
        /\ path' = IF IsRsc(path) /\ ~IsPrefetchRsc(path)
                        /\ path \notin DOMAIN output
                   THEN StripFirstRsc(path) ELSE path]_vars

\* /a entered a rule rewriting ^/ to /index.rsc and is still the path
C13_Witness ==
    /\ pc = "returned"
    /\ TheRule.src = "^/"
    /\ TheRule.dest = <<"index.rsc">>
    /\ hist.returned = <<"a">>
    /\ path = <<"a">>

\* The keys listed by the x-middleware-override-headers of the response
ListedKeys ==
    OverrideKeys(GetHeader(hist.resp.headers, "x-middleware-override-headers"))

\* C14: after processMiddlewareResp on a response that lists keys in
\* x-middleware-override-headers, the request header of each listed key has
\* the value of its x-middleware-request header (none when there is none), and
\* the directive headers are neither in the request headers nor in the normal
\* collection.
C14_OverrideHeaders ==
    [][pc = "processMiddlewareResp" =>
        \A k \in ListedKeys :
            /\ GetHeader(reqHeaders', k) = GetHeader(hist.resp.headers, ValueKey(k))
            /\ ~HasHeader(reqHeaders', ValueKey(k))
            /\ ~HasHeader(headers'.normal, ValueKey(k))
            /\ ~HasHeader(reqHeaders', "x-middleware-override-headers")
            /\ ~HasHeader(headers'.normal, "x-middleware-override-headers")]_vars

\* The locales of the request: the cookie's, then the accept-language header's
RequestLocales ==
    parseAcceptLanguage(IF TheRule.locale.cookie # ""
                        THEN GetHeader(cookies, TheRule.locale.cookie) ELSE "")
    \o parseAcceptLanguage(GetHeader(reqHeaders, "accept-language"))

\* v is the redirect target of the first of the request's locales that has one
IsRedirectTarget(v) ==
    \E i \in 1..Len(RequestLocales) :
        /\ RequestLocales[i] \in DOMAIN TheRule.locale.redirect
        /\ \A j \in 1..(i - 1) :
              RequestLocales[j] \notin DOMAIN TheRule.locale.redirect
        /\ v = TheRule.locale.redirect[RequestLocales[i]]

\* The call sets the location header to v and the status to 307, and no more
SetsRedirect(v) ==
    /\ headers' = [headers EXCEPT !.normal = SetHeader(@, "location", v)]
    /\ status' = 307
    /\ UNCHANGED <<path, searchParams, body, reqHeaders, middlewareInvoked>>

\* The call changes nothing of the matcher
LocaleNoChange ==
    UNCHANGED <<path, status, headers, searchParams, body, reqHeaders,
                middlewareInvoked>>

\* The rule's src is a regular expression or equals the path, and no location
\* header is set yet
LocaleEligible ==
    /\ SrcIsRegex(TheRule.src) \/ SrcAsPath(TheRule.src) = path
    /\ ~HasHeader(headers.normal, "location")

\* C15 as stated: applyLocaleRedirects sets location to the target of the
\* first locale (cookie's, then header's) with an entry in the redirect table
\* and the status to 307 when the path does not start with that target, and
\* changes nothing otherwise.
C15_LocaleRedirect ==
    [][pc = "applyLocaleRedirects" =>
        IF \E v \in {"/fr", "/de"} : IsRedirectTarget(v) /\ ~StartsWith(path, v)
        THEN \E v \in {"/fr", "/de"} : IsRedirectTarget(v) /\ SetsRedirect(v)
        ELSE LocaleNoChange]_vars

\* C15 as amended: the same, when the rule's src is a regular expression or
\* equals the path and no location header is set yet; a call without that
\* changes nothing.
C15_LocaleRedirectEligible ==
    [][pc = "applyLocaleRedirects" =>
        IF /\ LocaleEligible
           /\ \E v \in {"/fr", "/de"} : IsRedirectTarget(v) /\ ~StartsWith(path, v)
        THEN \E v \in {"/fr", "/de"} : IsRedirectTarget(v) /\ SetsRedirect(v)
        ELSE LocaleNoChange]_vars

\* cookie fr and accept-language de with the table {fr, de}: redirected to /fr
C15_Witness ==
    /\ pc = "returned"
    /\ DOMAIN TheRule.locale.redirect = {"fr", "de"}
    /\ GetHeader(cookies, "NEXT_LOCALE") = "fr"
    /\ GetHeader(reqHeaders, "accept-language") = "de"
    /\ GetHeader(headers.normal, "location") = "/fr"
    /\ status = 307

\* The rule checkRoute is called with next, as the phase has it matched
NextRoute == getLocaleFriendlyRoute(routes[Top.phase][Top.index], Top.phase)

\* checkRoute is about to be called on a rule that matches and whose
\* middleware has been invoked in this pass
RepeatedMiddleware ==
    /\ pc = "loop"
    /\ Top.index <= Len(routes[Top.phase])
    /\ checkRouteMatch(MatcherState, NextRoute, Top.phase = "error",
                       Top.phase = "rewrite")
    /\ NextRoute.middlewarePath # <<>>
    /\ \E i \in 1..Len(middlewareInvoked) :
          middlewareInvoked[i] = NextRoute.middlewarePath

\* No path is twice in the list of invoked middleware
InvokedOnce ==
    \A i, j \in 1..Len(middlewareInvoked) :
        middlewareInvoked[i] = middlewareInvoked[j] => i = j

\* C16: within one checkPhase pass no middleware path is invoked more than
\* once: the invoked list holds no path twice, it is emptied when the rule
\* loop of a phase is entered, each invocation appends the path of its rule,
\* and a matching rule whose middleware path is in the list is skipped: no
\* invocation, no change of path, status, headers, search params or body, and
\* the loop goes on with the next rule.
C16_MiddlewareOncePerPhase ==
    /\ []InvokedOnce
    /\ [][/\ (pc = "enter" /\ pc' = "loop") => middlewareInvoked' = <<>>
          /\ (pc = "loop" /\ hist'.invocations > hist.invocations) =>
                /\ hist'.invocations = hist.invocations + 1
                /\ middlewareInvoked' =
                      Append(middlewareInvoked, NextRoute.middlewarePath)
          /\ (pc = "loop" /\ hist'.invocations = hist.invocations) =>
                middlewareInvoked' = middlewareInvoked
          /\ RepeatedMiddleware =>
                /\ hist'.invocations = hist.invocations
                /\ UNCHANGED <<path, status, headers, searchParams, body,
                               reqHeaders, middlewareInvoked>>
                /\ pc' = "loop"
                /\ Len(stack') = Len(stack)
                /\ Top'.index = Top.index + 1]_vars

\* The second rule of a phase named the middleware the first had invoked, and
\* was skipped
C16_Witness ==
    /\ pc = "loop"
    /\ Top.index = 3
    /\ routes[Top.phase][1].middlewarePath = <<"mw">>
    /\ routes[Top.phase][2].middlewarePath = <<"mw">>
    /\ middlewareInvoked = <<<<"mw">>>>
    /\ hist.invocations = 1
    /\ Top.matched = 2

\* The rule checkRoute is called with, as the phase has it matched
CalledRoute == getLocaleFriendlyRoute(TheRule, callPhase)

\* The reasons for which a rule does not match
SrcFails == ~matchPCRE(CalledRoute.src, path).match

MethodFails ==
    /\ CalledRoute.methods # {}
    /\ \A m \in CalledRoute.methods : ToUpperCase(m) # ToUpperCase(reqMethod)

HasFails == CalledRoute.has # "" /\ ~HasHeader(reqHeaders, CalledRoute.has)

MissingFails ==
    CalledRoute.missing # "" /\ HasHeader(reqHeaders, CalledRoute.missing)

StatusFails == callPhase = "error" /\ CalledRoute.status # status

InterceptFails ==
    /\ callPhase = "rewrite"
    /\ CalledRoute.dest # <<>>
    /\ IsIntercept(CalledRoute.dest)
    /\ ~IsIntercept(path)

NoMatch ==
    \/ SrcFails
    \/ MethodFails
    \/ HasFails
    \/ MissingFails
    \/ StatusFails
    \/ InterceptFails

\* C17: checkRoute on a rule that does not match (source pattern, method, a
\* failing has, a satisfied missing, the status in the error phase, the
\* intercept guard in the rewrite phase) returns 'skip' and leaves path,
\* status, both header collections, search params, body, the request headers
\* and the list of invoked middleware as they were.
C17_NoMatchNoEffect ==
    [][(pc = "checkRoute" /\ NoMatch) =>
        /\ result' = "skip"
        /\ UNCHANGED <<path, status, headers, searchParams, body, reqHeaders,
                       middlewareInvoked>>]_vars

\* A rule marked override with a header, a status and a destination was
\* skipped for the header its missing condition names, and the pending status
\* and headers are still there
C17_Witness ==
    /\ pc = "returned"
    /\ result = "skip"
    /\ TheRule.src = "^/"
    /\ TheRule.missing = "a"
    /\ HasHeader(reqHeaders, "a")
    /\ TheRule.override
    /\ TheRule.headers # NoHeaders
    /\ TheRule.status = 404
    /\ TheRule.dest = <<"b">>
    /\ callPhase = "none"
    /\ path = <<"a">>
    /\ status = NoStatus
    /\ headers.normal = ("x-old" :> "n")
    /\ headers.important = ("x-old" :> "i")

\* The collection after the rule's headers were applied to the collection c
WithRuleHeaders(c) ==
    [k \in DOMAIN c \cup DOMAIN TheRule.headers |->
        IF k \in DOMAIN TheRule.headers THEN TheRule.headers[k] ELSE c[k]]

\* The status after applyRouteOverrides and applyRouteStatus
StatusOfRule ==
    IF TheRule.status # NoStatus THEN TheRule.status
    ELSE IF TheRule.override THEN NoStatus
    ELSE status

\* The effects of a rule that matches, has no middleware and no locale
\* redirect, on the header collections
HeadersOfRule ==
    /\ headers'.normal =
          WithRuleHeaders(IF TheRule.override THEN NoHeaders ELSE headers.normal)
    /\ headers'.important =
          IF TheRule.important
          THEN WithRuleHeaders(IF TheRule.override THEN NoHeaders
                               ELSE headers.important)
          ELSE IF TheRule.override THEN NoHeaders ELSE headers.important

\* C18 as stated: right after a matching rule marked override, without
\* middleware or locale redirect, the normal collection holds exactly the
\* rule's headers, the important collection holds them only if the rule is
\* important, and the status is the rule's status or unset; a rule not marked
\* override clears nothing.
C18_OverrideClears ==
    [][(pc = "checkRoute" /\ ~NoMatch /\ TheRule.middlewarePath = <<>>) =>
        /\ HeadersOfRule
        /\ status' = StatusOfRule]_vars

\* C18 as amended: the same, except for the status after a rule marked check
\* in the miss phase: 404 when the rule left the path as it was, and a 404
\* cleared when the rule moved the path to an artifact that exists.
C18_OverrideClearsThenCheck ==
    [][(pc = "checkRoute" /\ ~NoMatch /\ TheRule.middlewarePath = <<>>) =>
        /\ HeadersOfRule
        /\ status' =
              IF TheRule.check /\ callPhase = "miss" /\ ~isUrl(path')
              THEN IF path' = path THEN 404
                   ELSE IF /\ (path' \in DOMAIN output
                               \/ StripTrailingSlash(path') \in DOMAIN output)
                           /\ StatusOfRule = 404
                   THEN NoStatus
                   ELSE StatusOfRule
              ELSE StatusOfRule]_vars

\* A rule marked override, not important, with a header and no status, was
\* applied: its header is all the normal collection holds, the important
\* collection is empty, and no status is pending
C18_Witness ==
    /\ pc = "returned"
    /\ result = "done"
    /\ callPhase = "none"
    /\ TheRule.override
    /\ ~TheRule.important
    /\ TheRule.status = NoStatus
    /\ TheRule.headers = ("x-test" :> "a")
    /\ headers.normal = ("x-test" :> "a")
    /\ headers.important = NoHeaders
    /\ status = NoStatus

---------------------------------------------------------------------------
(* Runs compared: a request run twice by fresh instances, and two requests
   run each alone and then interleaved.  twin.mode tells which:
     "first"   the instance for the first request runs alone
     "again"   a fresh instance for the same request runs alone
     "alone"   an instance for the second request runs alone
     "mixed"   fresh instances for both requests run, either taking the next
               step; twin.other is the instance that is not running
   twin.cur is the request of the running instance, twin.answers the answer
   the middleware gives to each request, twin.solo the outcomes of the runs
   alone, twin.switched whether the running instance changed while both
   instances were in their run. *)

\* Rules of the compared runs
PairRules ==
    { [BaseRule EXCEPT !.middlewarePath = <<"mw">>, !.continue = TRUE],
      [BaseRule EXCEPT !.has = "a", !.status = 404, !.continue = TRUE],
      [BaseRule EXCEPT !.src = "^/a$", !.dest = <<"c">>, !.check = TRUE],
      [BaseRule EXCEPT !.src = "^/c$", !.dest = <<"a">>, !.check = TRUE],
      [BaseRule EXCEPT !.locale = [redirect |-> ("fr" :> "/fr") @@ ("de" :> "/de"),
                                   cookie |-> "NEXT_LOCALE"],
                       !.continue = TRUE],
      [BaseRule EXCEPT !.headers = ("x-test" :> "b"), !.continue = TRUE] }

PairPlacements ==
    {<<"none", rule>> : rule \in PairRules}
      \cup {<<"miss", [BaseRule EXCEPT !.src = "^//?(?:en|fr)/(.*)$",
                                       !.dest = <<"$1">>, !.check = TRUE]>>}

PairTables ==
    { [phase \in Phases |-> RulesOf(ps, phase)] :
        ps \in UNION {[1..n -> PairPlacements] : n \in 0..MaxRules} }

\* The answers a middleware gives in the compared runs
PairAnswers ==
    { Resp(200, "null", ("x-middleware-next" :> "1")
                          @@ ("x-middleware-override-headers" :> "a")
                          @@ ("x-middleware-request-a" :> "v1")),
      Resp(200, "null", ("x-middleware-rewrite" :> "/c")) }

\* The two requests of a comparison, each of Requests first in one pair
RequestPairs ==
    LET a == Request(<<"a">>, NoHeaders, NoHeaders)
        b == Request(<<"b">>, NoHeaders, NoHeaders)
        root == Request(<<"">>, ("accept-language" :> "de,fr"),
                        ("NEXT_LOCALE" :> "fr"))
        x == Request(<<"x", "en", "b">>, ("a" :> "v0"), NoHeaders)
    IN  {<<a, x>>, <<x, root>>, <<root, b>>, <<b, a>>} \cap (Requests \X Requests)

\* The running instance
Current ==
    [path |-> path, status |-> status, headers |-> headers,
     searchParams |-> searchParams, body |-> body,
     checkPhaseCounter |-> checkPhaseCounter,
     middlewareInvoked |-> middlewareInvoked, reqHeaders |-> reqHeaders,
     cookies |-> cookies, pc |-> pc, stack |-> stack, callPhase |-> callPhase,
     result |-> result, hist |-> hist]

\* inst is the running instance
Is(inst) ==
    /\ path = inst.path
    /\ status = inst.status
    /\ headers = inst.headers
    /\ searchParams = inst.searchParams
    /\ body = inst.body
    /\ checkPhaseCounter = inst.checkPhaseCounter
    /\ middlewareInvoked = inst.middlewareInvoked
    /\ reqHeaders = inst.reqHeaders
    /\ cookies = inst.cookies
    /\ pc = inst.pc
    /\ stack = inst.stack
    /\ callPhase = inst.callPhase
    /\ result = inst.result
    /\ hist = inst.hist

\* inst becomes the running instance
Load(inst) ==
    /\ path' = inst.path
    /\ status' = inst.status
    /\ headers' = inst.headers
    /\ searchParams' = inst.searchParams
    /\ body' = inst.body
    /\ checkPhaseCounter' = inst.checkPhaseCounter
    /\ middlewareInvoked' = inst.middlewareInvoked
    /\ reqHeaders' = inst.reqHeaders
    /\ cookies' = inst.cookies
    /\ pc' = inst.pc
    /\ stack' = inst.stack
    /\ callPhase' = inst.callPhase
    /\ result' = inst.result
    /\ hist' = inst.hist

\* The outcome of an instance whose run has returned
OutcomeOf(inst) ==
    Outcome(inst.result, inst.path, inst.status, inst.headers,
            inst.searchParams, inst.body)

PairInit ==
    /\ routes \in PairTables
    /\ startPhase = "none"
    /\ \E reqs \in RequestPairs :
       \E ansA \in PairAnswers : \E ansB \in PairAnswers :
          /\ reqHeaders = reqs[1].headers
          /\ Is(Fresh(reqs[1]))
          /\ twin = [mode |-> "first", cur |-> 1, reqs |-> reqs,
                     answers |-> <<ansA, ansB>>, other |-> Fresh(reqs[2]),
                     solo |-> <<NoOutcome, NoOutcome>>, switched |-> FALSE]
    /\ platform = NoPlatform

\* The caller constructs the matcher of the next run when a run alone has
\* returned: for the same request, then for the second request, then for both
NewMatcher ==
    /\ pc = "finished"
    /\ twin.mode \in {"first", "again", "alone"}
    /\ \E next \in
          { CASE twin.mode = "first" ->
                    [twin EXCEPT !.mode = "again", !.solo[1] = OutcomeOf(Current)]
              [] twin.mode = "again" ->
                    [twin EXCEPT !.mode = "alone", !.cur = 2]
              [] twin.mode = "alone" ->
                    [twin EXCEPT !.mode = "mixed", !.cur = 1,
                                 !.solo[2] = OutcomeOf(Current),
                                 !.other = Fresh(twin.reqs[2])] } :
          /\ twin' = next
          /\ Load(Fresh(next.reqs[next.cur]))
    /\ UNCHANGED <<platform, routes, startPhase>>

\* The running instance is at an await and the other instance goes on
Switch ==
    /\ twin.mode = "mixed"
    /\ twin.other.pc # "finished"
    /\ twin' = [twin EXCEPT
                   !.cur = 3 - @,
                   !.other = Current,
                   !.switched = @ \/ (/\ pc \notin {"start", "finished"}
                                      /\ twin.other.pc # "start")]
    /\ Load(twin.other)
    /\ UNCHANGED <<platform, routes, startPhase>>

PairNext ==
    \/ Run
    \/ CheckPhaseEnter
    \/ CheckRouteStep
    \/ CheckPhaseEnd
    \/ CheckRouteReturn
    \/ RunReturn
    \/ NewMatcher
    \/ Switch

PairSpec == PairInit /\ [][PairNext]_vars

BothFinished ==
    /\ twin.mode = "mixed"
    /\ Finished
    /\ twin.other.pc = "finished"

\* C20: no step of a run writes to the route table (the artifact map, the
\* wildcard configuration and the locale set are constants here), and when
\* the runs of two instances for two requests are interleaved, each ends with
\* the value returned and the tuple of its run alone.
C20_InterleavedAsAlone ==
    /\ [][routes' = routes]_vars
    /\ [](BothFinished =>
            /\ OutcomeOf(Current) = twin.solo[twin.cur]
            /\ OutcomeOf(twin.other) = twin.solo[3 - twin.cur])

\* Two interleaved runs have returned, each after an invocation of the
\* middleware, with different outcomes
C20_Witness ==
    /\ BothFinished
    /\ twin.switched
    /\ hist.invocations > 0
    /\ twin.other.hist.invocations > 0
    /\ twin.solo[1] # twin.solo[2]
    /\ OutcomeOf(Current) = twin.solo[twin.cur]

---------------------------------------------------------------------------
(* The request context API (getRequestContext.ts), each function called once.
   platform.stored is globalThis[Symbol.for('__khulnasoft-request-context__')]
   ("undefined" when there is none), platform.release is process.release.name
   ("" when there is none), platform.nextPhase and platform.nodeEnv are
   process.env.NEXT_PHASE and process.env.NODE_ENV.  A call ends with
   platform.returned or with platform.threw, the error it threw. *)

StoredContexts == {"undefined", "ctx1", "ctx2"}

ReleaseNames == {"node", "workerd", ""}

NextPhaseValues == {"phase-production-build", "phase-production-server", ""}

NodeEnvValues == {"development", "production", ""}

\* inferRuntime that takes every runtime for the edge runtime
inferRuntimeAlwaysEdge(release) == "edge"

inferRuntime(release) == IF release = "node" THEN "nodejs" ELSE "edge"

\* getOptionalRequestContext: what it returns, or the error it throws
getOptionalRequestContext(pl) ==
    IF inferRuntime(pl.release) = "nodejs"
    THEN [returned |-> "", threw |-> "edge runtime only"]
    ELSE [returned |-> pl.stored, threw |-> ""]

\* getRequestContext: what it returns, or the error it throws
getRequestContext(pl) ==
    LET optional == getOptionalRequestContext(pl)
    IN  IF optional.threw # "" THEN optional
        ELSE IF optional.returned = "undefined"
        THEN IF pl.nextPhase = "phase-production-build"
             THEN [returned |-> "", threw |-> "top level call"]
             ELSE IF pl.nodeEnv = "development"
             THEN [returned |-> "", threw |-> "failed to retrieve, setupDevPlatform"]
             ELSE [returned |-> "", threw |-> "failed to retrieve"]
        ELSE optional

CtxInit ==
    /\ routes = [phase \in Phases |-> <<>>]
    /\ startPhase = "none"
    /\ reqHeaders = NoHeaders
    /\ pc \in {"getOptionalRequestContext", "getRequestContext"}
    /\ Is([Fresh(Request(<<>>, NoHeaders, NoHeaders)) EXCEPT !.pc = pc])
    /\ twin = NoTwin
    /\ \E stored \in StoredContexts : \E release \in ReleaseNames :
       \E nextPhase \in NextPhaseValues : \E nodeEnv \in NodeEnvValues :
          platform = [stored |-> stored, release |-> release,
                      nextPhase |-> nextPhase, nodeEnv |-> nodeEnv,
                      returned |-> "", threw |-> ""]

\* The call ends with what the function returns or throws
Ends(o) ==
    /\ platform' = [platform EXCEPT !.returned = o.returned, !.threw = o.threw]
    /\ pc' = IF o.threw # "" THEN "threw" ELSE "returned"
    /\ UNCHANGED <<twin, routes, startPhase, path, status, headers,
                   searchParams, body, checkPhaseCounter, middlewareInvoked,
                   reqHeaders, cookies, stack, callPhase, result, hist>>

GetOptionalRequestContext ==
    /\ pc = "getOptionalRequestContext"
    /\ Ends(getOptionalRequestContext(platform))

GetRequestContext ==
    /\ pc = "getRequestContext"
    /\ Ends(getRequestContext(platform))

CtxNext == GetOptionalRequestContext \/ GetRequestContext

CtxSpec == CtxInit /\ [][CtxNext]_vars

\* The call returns v and throws nothing
Returns(v) ==
    /\ pc' = "returned"
    /\ platform'.returned = v
    /\ platform'.threw = ""

\* The call throws an error
Throws == pc' = "threw" /\ platform'.threw # ""

\* What the claim says of a call
ContextAccess ==
    /\ (pc = "getOptionalRequestContext" /\ platform.stored = "undefined") =>
          Returns("undefined")
    /\ (pc = "getRequestContext" /\ platform.stored = "undefined") => Throws
    /\ (pc \in {"getOptionalRequestContext", "getRequestContext"}
          /\ platform.stored # "undefined") => Returns(platform.stored)

C22_HitTerminal ==
    /\ [](hist.hitEntries <= 1)
    /\ [][hist.hitReturned =>
            /\ hist'.entries = hist.entries
            /\ hist'.evals = hist.evals]_vars

\* A checkPhase call is past its rule loop
AfterRuleLoop ==
    /\ stack # <<>>
    /\ \/ pc = "post"
       \/ pc = "loop" /\ Top.index > Len(routes[Top.phase])

\* The checkPhase call past its rule loop ends with a call of checkPhase
EntersNextPhase ==
    /\ AfterRuleLoop
    /\ pc' = "enter"
    /\ Len(stack') = Len(stack) - 1

\* The phase after phase in the order none, filesystem, rewrite, resource, miss
Successor(phase) ==
    CASE phase = "none" -> "filesystem"
      [] phase = "filesystem" -> "rewrite"
      [] phase = "rewrite" -> "resource"
      [] phase = "resource" -> "miss"

\* C23: when checkPhase(p) does not return at its done-check, the phase it
\* enters next is hit if the path it leaves (trailing slash dropped) is in the
\* artifact map or p is miss or error; otherwise the successor of p if no rule
\* of p returned 'done'; otherwise miss.
C23_NextPhase ==
    [][EntersNextPhase =>
        callPhase' =
            IF path' \in DOMAIN output \/ Top.phase \in {"miss", "error"}
            THEN "hit"
            ELSE IF Top.shouldContinue THEN Successor(Top.phase)
            ELSE "miss"]_vars

\* The first checkPhase call of a run, for `none`, ended with a call for
\* `miss`: a rule had returned 'done' and the path is no artifact
C23_Witness ==
    /\ pc = "enter"
    /\ callPhase = "miss"
    /\ stack = <<>>
    /\ hist.bodies = 1
    /\ hist.evals >= 1
    /\ path \notin DOMAIN output

---------------------------------------------------------------------------
(* The check flag of a rule: checkRoute lines 533-565 *)

\* checkRoute is called on a check-marked rule that matches, whose middleware
\* (if it has one) neither failed nor ended the routing, and that leaves a
\* path that is not an absolute URL
CheckedRule ==
    /\ pc = "checkRoute"
    /\ ~NoMatch
    /\ TheRule.check
    /\ result' # "error"
    /\ body' = "undefined"
    /\ headers'.middlewareLocation = ""
    /\ ~isUrl(path')

\* prevPath of checkRoute: the path the rule's destination is applied to,
\* which is the path the rule's middleware left
PathBeforeDest ==
    IF RouteInvokes(callPhase, TheRule, MatcherState)
    THEN processMiddlewareResp(MatcherState, hist.resp).path
    ELSE path

\* checkRoute ends by returning checkPhase(phase)
CallsPhase(phase) == result' = "call" /\ callPhase' = phase

\* checkRoute ends without a call of checkPhase
CallsNoPhase == result' # "call" /\ callPhase' = callPhase

\* What checkRoute does for a check-marked rule that left the path as it was
UnchangedPathRule ==
    IF callPhase = "miss"
    THEN status' = 404 /\ CallsNoPhase
    ELSE CallsPhase(Successor(callPhase))

ChangedPathRule ==
    IF callPhase = "miss"
    THEN IF /\ path' \notin DOMAIN output
            /\ StripTrailingSlash(path') \notin DOMAIN output
         THEN CallsPhase("filesystem")
         ELSE /\ status' = IF StatusOfRule = 404 THEN NoStatus ELSE StatusOfRule
              /\ CallsNoPhase
    ELSE CallsPhase("none")

---------------------------------------------------------------------------
(* The locale fixup of checkPhase('none'): lines 625-639 *)

\* The path begins with /<locale>/ for a known locale, and what follows the
\* locale segment is an artifact
LeadingLocaleOfArtifact ==
    /\ Len(path) >= 2
    /\ \E i \in 1..Len(locales) : locales[i] = path[1]
    /\ Tail(path) \in DOMAIN output

\* C26: past its rule loop, checkPhase changes the path (other than by
\* dropping a trailing slash) only in the none phase and only when the path
\* begins with /<locale>/ for a known locale and the rest after that segment
\* is an artifact; the new path is then that rest.  A path with a locale
\* segment only after its first segment stays as it is.
C26_LocaleFixup ==
    [][(AfterRuleLoop /\ path' # path /\ path' # StripTrailingSlash(path)) =>
        /\ Top.phase = "none"
        /\ LeadingLocaleOfArtifact
        /\ path' = Tail(path)]_vars

---------------------------------------------------------------------------
(* The response body: processMiddlewareResp line 229 *)

\* The response has no x-middleware-next, no x-middleware-rewrite and no
\* location header
ShortCircuits(resp) ==
    /\ ~HasHeader(resp.headers, "x-middleware-next")
    /\ ~HasHeader(resp.headers, "x-middleware-rewrite")
    /\ ~HasHeader(resp.headers, "location")

\* C27: the body is undefined unless a middleware invoked in this run has
\* answered without x-middleware-next, x-middleware-rewrite and location; and
\* the body changes only in a step that invokes a middleware answering so,
\* to that response's body: no rule, override or phase step sets or clears it.
C27_BodyOnlyShortCircuit ==
    /\ [](body # "undefined" => hist.shortAt >= 0)
    /\ [][body' # body =>
            /\ hist'.invocations = hist.invocations + 1
            /\ ShortCircuits(hist'.mwResp)
            /\ body' = hist'.mwResp.body]_vars

\* A middleware answered with a null body and no directive header, rules of
\* later phases were evaluated after that, and the run ended with the body
\* still null
C27_Witness ==
    /\ pc = "finished"
    /\ body = "null"
    /\ hist.shortAt >= 0
    /\ hist.evals > hist.shortAt
    /\ hist.invocations = 1

---------------------------------------------------------------------------
(* A middleware that answers with status 500: runRouteMiddleware 271-275 *)

\* In this step checkRoute invokes a middleware that answers with status 500
MiddlewareAnswers500 ==
    /\ hist'.evals = hist.evals + 1
    /\ hist'.mw500At = hist'.evals

\* The normal collection is as before, but for what the rule itself does ahead
\* of its middleware: an override emptying it, a locale redirect setting location
NothingCopiedToNormal ==
    \A k \in DOMAIN headers'.normal \ {"location"} :
        /\ k \in DOMAIN headers.normal
        /\ headers'.normal[k] = headers.normal[k]

\* C28: when an invoked middleware answers with status 500 the status becomes
\* 500, none of the response's headers reach the request or the normal
\* collection, path, search params and body stay as they are and checkRoute
\* returns 'error'; after that no rule is evaluated and no phase is entered,
\* and run returns 'error'.
C28_Middleware500 ==
    /\ [][MiddlewareAnswers500 =>
            /\ status' = 500
            /\ reqHeaders' = reqHeaders
            /\ NothingCopiedToNormal
            /\ path' = path
            /\ searchParams' = searchParams
            /\ body' = body
            /\ pc' = "return"
            /\ result' = "error"]_vars
    /\ [][hist.mw500At >= 0 =>
            /\ hist'.evals = hist.evals
            /\ hist'.entries = hist.entries
            /\ result' = "error"]_vars
    /\ [](pc = "finished" /\ hist.mw500At >= 0 => result = "error")

\* The middleware of a rule in a nested phase answered 500 after an earlier
\* rule had been applied, and run returned 'error' with status 500
C28_Witness ==
    /\ pc = "finished"
    /\ result = "error"
    /\ hist.mw500At >= 2
    /\ hist.entries >= 2
    /\ hist.invocations = 1
    /\ status = 500
    /\ body = "undefined"

============================================================================
